---- MODULE Spec2Model ----
(***************************************************************************)
(* Fixed-point model of the spectrogram library: the window coefficient    *)
(* cache (window-functions.ts) and the spectrogram generator               *)
(* (spectrogram.ts).                                                       *)
(*                                                                         *)
(* Numbers.  A JavaScript number v is held as the integer round(v*SCALE);  *)
(* the not-a-number value is the distinguished integer NaN, which every    *)
(* arithmetic operator below propagates.  Frame, bin and sample counts are *)
(* plain integers.  Math.cos/Math.sin are tabulated at the angles the      *)
(* model uses; Math.log is computed bit by bit (Log2Q).                    *)
(*                                                                         *)
(* Arrays.  A Float32Array the caller can hold a reference to lives in     *)
(* heap under an array id, so that the same array and an equal array are   *)
(* different things.                                                       *)
(***************************************************************************)
EXTENDS Integers, Sequences, FiniteSets, TLC

VARIABLES
  windowCache,  \* the Map windowCache: cache key -> id of the cached array
  heap,         \* the coefficient arrays ever returned: id -> contents
  ctx,          \* the transform context: size, isReal, input and output buffer
  pc,           \* "idle", or "frames" inside the frame loop of a generation
  call,         \* arguments and locals of the current (or last) generation
  ret,          \* what the last public call returned or threw
  lastGet,      \* history: key -> what getWindowCoefficients last returned
                \* for it since the last clearWindowCache
  prevGet,      \* history: key -> what it last returned before that clear
  nOps,         \* number of public calls made
  colorLUTCache, \* the Map colorLUTCache: colour scale key -> lookup table
  image,        \* what the last render call returned, drew or threw
  analysis,     \* what the last analyzeFrequencyRange call returned
  remapped,     \* the last remapSpectrumWithDownsample call and its result
  firstResult,  \* history: generation arguments -> what the first
                \* generateSpectrogram call with them returned
  mapping,      \* the last createFrequencyMapping call and its result
  demo          \* the demo page: controls, samples, zoom, canvas size, undo
                \* stack, processAndRender calls in flight, spectrogram shown

vars == <<windowCache, heap, ctx, pc, call, ret, lastGet, prevGet, nOps,
          colorLUTCache, image, analysis, remapped, firstResult, mapping,
          demo>>

\* the state of the renderer and of the range analysis
rendererVars == <<colorLUTCache, image, analysis, remapped>>

\* the state of the library: everything but the demo page
libraryVars == <<windowCache, heap, ctx, pc, call, ret, lastGet, prevGet, nOps,
                 colorLUTCache, image, analysis, remapped, firstResult>>

----------------------------------------------------------------------------
(* Bounds of the model *)

MaxSamples == 9
MaxHop == 3
MaxTargetWidth == 3
MaxOps == 3
MaxCacheOps == 5
MaxRenders == 2

----------------------------------------------------------------------------
(* Fixed-point arithmetic *)

SCALE == 100

NaN == 99999999

Abs(a) == IF a < 0 THEN -a ELSE a

Max2(a, b) == IF a > b THEN a ELSE b

MaxOf(S) == CHOOSE m \in S : \A x \in S : x <= m

\* a / b rounded to the nearest integer (b > 0)
RoundDiv(a, b) == (2 * a + b) \div (2 * b)

FxMul(a, b) == IF a = NaN \/ b = NaN THEN NaN ELSE RoundDiv(a * b, SCALE)

FxDiv(a, b) ==
  IF a = NaN \/ b = NaN \/ b = 0 THEN NaN
  ELSE IF b > 0 THEN RoundDiv(a * SCALE, b) ELSE RoundDiv(-(a * SCALE), -b)

FxSub(a, b) == IF a = NaN \/ b = NaN THEN NaN ELSE a - b

\* Math.floor of an integer quotient
FloorDiv(a, b) == a \div b

RECURSIVE ISqrtIn(_, _, _)
\* the largest r in lo..hi with r * r <= n
ISqrtIn(n, lo, hi) ==
  IF lo >= hi THEN lo
  ELSE LET mid == (lo + hi + 1) \div 2
       IN IF mid * mid <= n THEN ISqrtIn(n, mid, hi) ELSE ISqrtIn(n, lo, mid - 1)

\* Math.sqrt on integers, rounded to the nearest integer
ISqrt(n) ==
  LET r == ISqrtIn(n, 0, 40000)
  IN IF n - r * r > r THEN r + 1 ELSE r

RECURSIVE FloorLog2(_)
FloorLog2(x) == IF x < 2 THEN 0 ELSE 1 + FloorLog2(x \div 2)

RECURSIVE Pow2(_)
Pow2(e) == IF e = 0 THEN 1 ELSE 2 * Pow2(e - 1)

RECURSIVE Log2Frac(_, _)
\* the next `bits` binary digits of log2(y / 4096), 4096 <= y < 8192, by
\* repeated squaring
Log2Frac(y, bits) ==
  IF bits = 0 THEN 0
  ELSE LET sq == (y * y) \div 4096
       IN IF sq >= 8192
          THEN Pow2(bits - 1) + Log2Frac(sq \div 2, bits - 1)
          ELSE Log2Frac(sq, bits - 1)

\* 64 * log2(x), rounded down to a multiple of 1/64, for an integer x >= 1
Log2Q(x) ==
  LET e == FloorLog2(x)
      y == (x * 4096) \div Pow2(e)
  IN 64 * e + Log2Frac(y, 6)

\* Math.cos(2*PI*k/d) and Math.sin(2*PI*k/d), times SCALE
CosTable ==
  [d \in {1, 3, 7, 8} |->
     CASE d = 1 -> <<100>>
       [] d = 3 -> <<100, -50, -50>>
       [] d = 7 -> <<100, 62, -22, -90, -90, -22, 62>>
       [] d = 8 -> <<100, 71, 0, -71, -100, -71, 0, 71>>]

SinTable ==
  [d \in {1, 3, 7, 8} |->
     CASE d = 1 -> <<0>>
       [] d = 3 -> <<0, 87, -87>>
       [] d = 7 -> <<0, 78, 97, 43, -43, -97, -78>>
       [] d = 8 -> <<0, 71, 100, 71, 0, -71, -100, -71>>]

Cos(k, d) == CosTable[d][(k % d) + 1]

Sin(k, d) == SinTable[d][(k % d) + 1]

\* Math.PI times SCALE
PI == 314

----------------------------------------------------------------------------
(* window-functions.ts *)

WindowTypes == {"hann", "hamming", "blackman", "blackmanHarris", "rectangular"}

WindowVariants == {"standard", "derivative", "timeRamped"}

WINDOW_COHERENT_GAIN ==
  [t \in WindowTypes |->
     CASE t = "hann" -> 50
       [] t = "hamming" -> 54
       [] t = "blackman" -> 42
       [] t = "blackmanHarris" -> 36
       [] t = "rectangular" -> 100]

\* WINDOW_FUNCTIONS[t](i, N)
WINDOW_FUNCTIONS(t, i, N) ==
  LET d == N - 1 IN
  CASE t = "hann" -> FxMul(50, 100 - Cos(i, d))
    [] t = "hamming" -> 54 - FxMul(46, Cos(i, d))
    [] t = "blackman" -> 42 - FxMul(50, Cos(i, d)) + FxMul(8, Cos(2 * i, d))
    [] t = "blackmanHarris" ->
         36 - FxMul(49, Cos(i, d)) + FxMul(14, Cos(2 * i, d)) - FxMul(1, Cos(3 * i, d))
    [] t = "rectangular" -> 100

\* WINDOW_DERIVATIVES[t](i, N)
WINDOW_DERIVATIVES(t, i, N) ==
  LET d == N - 1
      w1 == RoundDiv(2 * PI, d)
      w2 == RoundDiv(4 * PI, d)
      w3 == RoundDiv(6 * PI, d)
  IN
  CASE t = "hann" -> FxMul(RoundDiv(PI, d), Sin(i, d))
    [] t = "hamming" -> FxMul(FxMul(46, w1), Sin(i, d))
    [] t = "blackman" ->
         FxMul(FxMul(50, w1), Sin(i, d)) - FxMul(FxMul(8, w2), Sin(2 * i, d))
    [] t = "blackmanHarris" ->
         FxMul(FxMul(49, w1), Sin(i, d)) - FxMul(FxMul(14, w2), Sin(2 * i, d))
           + FxMul(FxMul(1, w3), Sin(3 * i, d))
    [] t = "rectangular" -> 0

\* i - (N - 1) / 2, times SCALE
Ramp(i, N) == ((2 * i - (N - 1)) * SCALE) \div 2

\* WINDOW_TIME_RAMPED[t](i, N)
WINDOW_TIME_RAMPED(t, i, N) ==
  IF t = "rectangular" THEN Ramp(i, N)
  ELSE FxMul(Ramp(i, N), WINDOW_FUNCTIONS(t, i, N))

\* Names every JavaScript object literal inherits from Object.prototype: the
\* lookup TABLE[type] finds a (truthy) function there, which is not a window.
ObjectPrototypeKeys == {"toString"}

\* TABLE[type] || TABLE.hann, for each of the three tables and for
\* WINDOW_COHERENT_GAIN: the entry the lookup resolves to
ResolveEntry(type) ==
  IF type \in WindowTypes THEN type
  ELSE IF type \in ObjectPrototypeKeys THEN "inherited"
  ELSE "hann"

\* fn(i, size) for the fn chosen by the switch on the variant
WindowFn(type, variant, i, N) ==
  LET t == ResolveEntry(type) IN
  IF t = "inherited" THEN NaN
  ELSE CASE variant = "derivative" -> WINDOW_DERIVATIVES(t, i, N)
         [] variant = "timeRamped" -> WINDOW_TIME_RAMPED(t, i, N)
         [] OTHER -> WINDOW_FUNCTIONS(t, i, N)

\* the loop coefficients[i] = fn(i, size); model index i+1 is source index i
ComputeCoefficients(type, size, variant) ==
  [i \in 1..size |-> WindowFn(type, variant, i - 1, size)]

\* `${type}-${size}-${variant}`: the three parts, kept apart
getCacheKey(type, size, variant) == <<type, size, variant>>

\* The effect of getWindowCoefficients on (windowCache, heap) and its result:
\* a cache hit returns the cached array, a miss allocates and caches one.
GetCoefficients(cache, hp, type, size, variant) ==
  LET key == getCacheKey(type, size, variant) IN
  IF key \in DOMAIN cache
  THEN [cache |-> cache, heap |-> hp, id |-> cache[key], computed |-> FALSE]
  ELSE LET id == Len(hp) + 1 IN
       [cache |-> cache @@ (key :> id),
        heap |-> Append(hp, ComputeCoefficients(type, size, variant)),
        id |-> id, computed |-> TRUE]

\* the loop result[i] = frame[i] * coefficients[i], i < frame.length, written
\* into out (a write past the end of a typed array is dropped)
ApplyInto(frame, coefficients, out) ==
  [i \in 1..Len(out) |->
     IF i <= Len(frame) THEN FxMul(frame[i], coefficients[i]) ELSE out[i]]

----------------------------------------------------------------------------
(* spectrogram.ts *)

\* DB_SCALE_FACTOR * Math.log(magnitude + 1e-10), in dB times SCALE.  The
\* 1e-10 is below the fixed-point resolution: it only decides the value at
\* magnitude 0, which is 20*log10(1e-10) = -200 dB.
magnitudeToDb(magnitude) ==
  IF magnitude = NaN THEN NaN
  ELSE IF magnitude <= 0 THEN -200 * SCALE
  ELSE RoundDiv(Log2Q(magnitude) * 602, 64) - 40 * SCALE

\* mutant of Clamp01: the upper clamp forgotten
ClampLowOnly(normalized) ==
  IF normalized = NaN THEN NaN
  ELSE IF normalized < 0 THEN 0
  ELSE normalized

\* normalized < 0 ? 0 : normalized > 1 ? 1 : normalized  (both comparisons
\* are false for NaN)
Clamp01(normalized) ==
  IF normalized = NaN THEN NaN
  ELSE IF normalized < 0 THEN 0
  ELSE IF normalized > SCALE THEN SCALE
  ELSE normalized

\* the value written for a bin of magnitude mag
NormalizedValue(mag, normFactor, gainOffset, range) ==
  LET normalizedMag == FxDiv(mag, normFactor)
      db == magnitudeToDb(normalizedMag)
      normalized == FxDiv(FxSub(db, gainOffset), range)
  IN Clamp01(normalized)

Zeros(n) == [i \in 1..n |-> 0]

\* samples.subarray(from, to): a view clipped to the array
Subarray(a, from, to) ==
  LET lo == IF from > Len(a) THEN Len(a) ELSE from
      hi == IF to > Len(a) THEN Len(a) ELSE to
  IN IF hi <= lo THEN <<>> ELSE SubSeq(a, lo + 1, hi)

\* target.set(src): overwrites the first src.length elements of target
SetInto(target, src) ==
  [i \in 1..Len(target) |-> IF i <= Len(src) THEN src[i] ELSE target[i]]

\* target.fill(0, from)
FillZeroFrom(target, from) ==
  [i \in 1..Len(target) |-> IF i > from THEN 0 ELSE target[i]]

\* mutant of FFTInputWrite: the imaginary inputs left as they were
FFTInputWriteRealPartsOnly(inputBuffer, isReal, data, fftSize) ==
  IF isReal THEN SetInto(inputBuffer, data)
  ELSE [j \in 1..Len(inputBuffer) |->
          IF j > 2 * fftSize \/ j % 2 = 0 THEN inputBuffer[j]
          ELSE LET i == (j + 1) \div 2
               IN IF i > Len(data) \/ data[i] = NaN THEN 0 ELSE data[i]]

\* the input-buffer writes of runFFT
FFTInputWrite(inputBuffer, isReal, data, fftSize) ==
  IF isReal THEN SetInto(inputBuffer, data)
  ELSE [j \in 1..Len(inputBuffer) |->
          IF j > 2 * fftSize THEN inputBuffer[j]
          ELSE IF j % 2 = 0 THEN 0
          ELSE LET i == (j + 1) \div 2
               IN IF i > Len(data) \/ data[i] = NaN THEN 0 ELSE data[i]]

\* the real input sample n (0-based) the transform reads
FFTSample(inputBuffer, isReal, n) ==
  IF isReal THEN inputBuffer[n + 1] ELSE inputBuffer[2 * n + 1]

RECURSIVE DFTSum(_, _, _, _, _, _)
\* sum over n of x[n] * cos(2 PI k n / N)  (part = "re")
\* or of x[n] * -sin(2 PI k n / N)         (part = "im"), for n < upto
DFTSum(inputBuffer, isReal, N, k, part, upto) ==
  IF upto = 0 THEN 0
  ELSE LET n == upto - 1
           x == FFTSample(inputBuffer, isReal, n)
           w == IF part = "re" THEN Cos(k * n, N) ELSE -Sin(k * n, N)
       IN x * w + DFTSum(inputBuffer, isReal, N, k, part, n)

\* fftContext.run(): the forward transform of the input buffer, as interleaved
\* re/im pairs for bins 0..N/2
FFTRun(inputBuffer, isReal, N) ==
  LET anyNaN == \E n \in 0..(N - 1) : FFTSample(inputBuffer, isReal, n) = NaN
  IN [j \in 1..(2 * (N \div 2 + 1)) |->
        IF anyNaN THEN NaN
        ELSE LET k == (j - 1) \div 2
                 part == IF j % 2 = 1 THEN "re" ELSE "im"
             IN RoundDiv(DFTSum(inputBuffer, isReal, N, k, part, N), SCALE)]

\* runFFT: the context after the call, and the copy of its output returned
runFFT(context, data, fftSize) ==
  LET inp == FFTInputWrite(context.input, context.isReal, data, fftSize)
      out == FFTRun(inp, context.isReal, fftSize)
  IN [ctx |-> [context EXCEPT !.input = inp, !.output = out],
      result |-> [i \in 1..(2 * (fftSize \div 2 + 1)) |-> out[i]]]

\* computeMagnitudeInPlace, one bin (0-based)
Magnitude(complexOutput, bin) ==
  LET re == complexOutput[2 * bin + 1]
      im == complexOutput[2 * bin + 2]
  IN IF re = NaN \/ im = NaN THEN NaN ELSE ISqrt(re * re + im * im)

Undefined == 0 - 1

dcBinsToSkip == 3

\* mutant of FrameCount: the + 1 forgotten
FrameCountNoPlusOne(numSamples, windowSize, hopSize) ==
  FloorDiv(numSamples - windowSize, hopSize)

\* mutant of FrameCount: the quotient rounded up, a last frame that starts
\* inside the samples and ends past them
FrameCountRoundedUp(numSamples, windowSize, hopSize) ==
  -FloorDiv(-(numSamples - windowSize), hopSize) + 1

\* Math.floor((samples.length - windowSize) / hopSize) + 1
FrameCount(numSamples, windowSize, hopSize) ==
  FloorDiv(numSamples - windowSize, hopSize) + 1

\* options.hopSize ?? Math.floor(fftSize / 4)
RequestedHopSize(optHopSize, fftSize) ==
  IF optHopSize = Undefined THEN FloorDiv(fftSize, 4) ELSE optHopSize

\* mutant of CappedHopSize: the hop size always derived from targetWidth
CappedHopSizeAlways(numSamples, windowSize, hopSize, targetWidth) ==
  IF targetWidth # Undefined /\ targetWidth > 0
  THEN Max2(1, FloorDiv(numSamples - windowSize, Max2(1, targetWidth - 1)))
  ELSE hopSize

\* the hop size after the targetWidth block of generateSpectrogram
\* (targetWidth && targetWidth > 0 is false for undefined and for 0)
CappedHopSize(numSamples, windowSize, hopSize, targetWidth) ==
  IF targetWidth # Undefined /\ targetWidth > 0
  THEN LET framesWithUserHop == FrameCount(numSamples, windowSize, hopSize)
       IN IF framesWithUserHop > targetWidth
          THEN LET minHopSize ==
                     FloorDiv(numSamples - windowSize, Max2(1, targetWidth - 1))
               IN Max2(hopSize, minHopSize)
          ELSE hopSize
  ELSE hopSize

\* mutant of TooShort: an empty result let through
TooShortStrict(numFrames) == numFrames < 0

\* if (numFrames <= 0) throw new Error("Audio too short for the given FFT size")
TooShort(numFrames) == numFrames <= 0

\* WINDOW_COHERENT_GAIN[windowType] || WINDOW_COHERENT_GAIN.hann
CoherentGain(windowType) ==
  LET t == ResolveEntry(windowType)
  IN IF t = "inherited" THEN NaN ELSE WINDOW_COHERENT_GAIN[t]

\* (fftSize * coherentGain) / 2
NormFactor(fftSize, coherentGain) ==
  IF coherentGain = NaN THEN NaN ELSE (fftSize * coherentGain) \div 2

\* (x + 0.5) | 0 for x = whole + frac: ToInt32 drops the fraction towards
\* zero and maps NaN to 0 (the model's values stay far inside 32 bits)
FastRound(whole, frac) ==
  IF frac = NaN THEN 0
  ELSE LET v == whole * SCALE + frac + SCALE \div 2
       IN IF v >= 0 THEN v \div SCALE ELSE -((-v) \div SCALE)

\* mutant of InBounds: the DC bins accepted as targets
InBoundsFromZero(reassignedBin, reassignedFrame, numBins, numFrames) ==
  /\ reassignedBin >= 0
  /\ reassignedBin < numBins
  /\ reassignedFrame >= 0
  /\ reassignedFrame < numFrames

\* the bounds test on the reassigned coordinates
InBounds(reassignedBin, reassignedFrame, numBins, numFrames) ==
  /\ reassignedBin >= dcBinsToSkip
  /\ reassignedBin < numBins
  /\ reassignedFrame >= 0
  /\ reassignedFrame < numFrames

\* One bin of the reassignment loop: where its energy goes and how much.
\* skip is the continue on |X_h|^2 < 1e-20, which in fixed point is = 0.
Reassign(X_h, X_Dh, X_Th, frame, bin, c) ==
  LET re_h == X_h[2 * bin + 1]
      im_h == X_h[2 * bin + 2]
      nan == re_h = NaN
      mag_h_sq == IF nan THEN NaN ELSE re_h * re_h + im_h * im_h
      skip == ~nan /\ mag_h_sq = 0
      mag_h == IF nan THEN NaN ELSE ISqrt(mag_h_sq)
      re_Dh == X_Dh[2 * bin + 1]
      im_Dh == X_Dh[2 * bin + 2]
      re_Th == X_Th[2 * bin + 1]
      im_Th == X_Th[2 * bin + 2]
      anyNaN == nan \/ re_Dh = NaN \/ re_Th = NaN \/ skip
      ratio_Dh_im ==
        IF anyNaN THEN NaN
        ELSE RoundDiv((im_Dh * re_h - re_Dh * im_h) * SCALE, mag_h_sq)
      ratio_Th_re ==
        IF anyNaN THEN NaN
        ELSE RoundDiv((re_Th * re_h + im_Th * im_h) * SCALE, mag_h_sq)
      freqCorrection ==
        IF anyNaN THEN NaN
        ELSE RoundDiv(-(ratio_Dh_im * c.fftSize * SCALE), 2 * PI)
      timeCorrection ==
        IF anyNaN THEN NaN ELSE RoundDiv(ratio_Th_re, c.hopSize)
      reassignedBin == FastRound(bin, freqCorrection)
      reassignedFrame == FastRound(frame, timeCorrection)
      inRange == InBounds(reassignedBin, reassignedFrame, c.numBins, c.numFrames)
  IN [skip |-> skip,
      inRange |-> ~skip /\ inRange,
      fromBin |-> bin,
      fromFrame |-> frame,
      freqCorrection |-> freqCorrection,
      timeCorrection |-> timeCorrection,
      bin |-> reassignedBin,
      frame |-> reassignedFrame,
      idx |-> reassignedFrame * c.numBins + reassignedBin,
      value |-> NormalizedValue(mag_h, c.normFactor, c.gain - c.range, c.range)]

\* mutant of Accumulate: contributions summed
AccumulateSum(energyAccum, idx, value) ==
  IF value # NaN
  THEN [energyAccum EXCEPT ![idx + 1] = energyAccum[idx + 1] + value]
  ELSE energyAccum

\* if (value > energyAccum[idx]) energyAccum[idx] = value
Accumulate(energyAccum, idx, value) ==
  IF value # NaN /\ value > energyAccum[idx + 1]
  THEN [energyAccum EXCEPT ![idx + 1] = value]
  ELSE energyAccum

RECURSIVE ReassignBins(_, _, _, _, _, _, _)
\* the loop for (bin = dcBinsToSkip; bin < numBins; bin++) from bin on
ReassignBins(energyAccum, X_h, X_Dh, X_Th, frame, bin, c) ==
  IF bin >= c.numBins THEN energyAccum
  ELSE LET r == Reassign(X_h, X_Dh, X_Th, frame, bin, c)
           next == IF r.inRange THEN Accumulate(energyAccum, r.idx, r.value)
                   ELSE energyAccum
       IN ReassignBins(next, X_h, X_Dh, X_Th, frame, bin + 1, c)

\* the two normalization loops of the standard algorithm for one frame
StandardFrameValues(spectrogram, fftOutput, frame, c) ==
  LET frameOffset == frame * c.numBins IN
  [j \in 1..Len(spectrogram) |->
     LET bin == (j - 1) - frameOffset IN
     IF bin < 0 \/ bin >= c.numBins THEN spectrogram[j]
     ELSE IF bin < dcBinsToSkip THEN 0
     ELSE NormalizedValue(Magnitude(fftOutput, bin), c.normFactor,
                          c.gain - c.range, c.range)]

\* windowing and zero padding of one frame with one coefficient set: the
\* buffers after the step and the transform input
WindowAndPad(frameData, coefficients, windowedBuffer, paddedBuffer, c) ==
  LET windowed == ApplyInto(frameData, coefficients, windowedBuffer)
      padded == IF c.zeroPadding > 1
                THEN FillZeroFrom(SetInto(paddedBuffer, windowed), c.windowSize)
                ELSE paddedBuffer
  IN [windowed |-> windowed, padded |-> padded,
      fftInput |-> IF c.zeroPadding > 1 THEN padded ELSE windowed,
      frameLength |-> Len(frameData)]

----------------------------------------------------------------------------
(* State and actions *)

EmptyFn == [x \in {} |-> 0]

StaleBuffer(n) == [i \in 1..n |-> SCALE \div 2]

FFTSizes == {8}

NewContext(size, isReal) ==
  [size |-> size, isReal |-> isReal,
   input |-> StaleBuffer(IF isReal THEN size ELSE 2 * size),
   output |-> StaleBuffer(2 * (size \div 2 + 1))]

\* currentSamples = null (demo/src/main.ts); samples are named by the audio
\* they come from and the region [startSample, endSample) of it they hold
NoSamples == [audio |-> "none", startSample |-> 0, endSample |-> 0]

\* currentSpectrogram = null; a spectrogram is named by what generateSpectrogram
\* made it from
NoSpectrogram == [algorithm |-> "none", samples |-> NoSamples]

\* the canvas before anything is drawn; a drawn canvas is named by the
\* spectrogram and the colour scale renderSpectrogram drew
NoCanvas == [algorithm |-> "none", samples |-> NoSamples, colorScale |-> "none"]

\* the demo page when its module has run: the controls at their defaults,
\* no samples, no zoom, the canvas at its own size, no undo state, and
\* loadDefaultAudio waiting for its fetch
DemoStart ==
  [controlValues |-> [algorithm |-> "standard", colorScale |-> "magma"],
   currentSamples |-> NoSamples,
   originalSamples |-> NoSamples,
   zoomStack |-> <<>>,
   isCustomSize |-> FALSE, customWidth |-> 0, customHeight |-> 0,
   undoStack |-> <<>>,
   isRestoringState |-> FALSE,
   pending |-> <<>>,
   lastStarted |-> NoSpectrogram,
   currentSpectrogram |-> NoSpectrogram,
   canvas |-> NoCanvas,
   defaultAudio |-> "fetching",
   undone |-> FALSE]

Init ==
  /\ windowCache = EmptyFn
  /\ heap = <<>>
  /\ ctx \in {NewContext(size, isReal) : size \in FFTSizes, isReal \in BOOLEAN}
  /\ pc = "idle"
  /\ call = [op |-> "none"]
  /\ ret = [op |-> "none"]
  /\ lastGet = EmptyFn
  /\ prevGet = EmptyFn
  /\ nOps = 0
  /\ colorLUTCache = EmptyFn
  /\ image = [op |-> "none"]
  /\ analysis = [op |-> "none"]
  /\ remapped = [op |-> "none"]
  /\ firstResult = EmptyFn
  /\ mapping = [op |-> "none"]
  /\ demo = DemoStart

\* the history entry of a getWindowCoefficients return
GetRecord(hp, id) == [id |-> id, contents |-> hp[id]]

RECURSIVE GetAll(_, _, _, _, _)
\* the getWindowCoefficients calls of a generation, one per variant in order:
\* the cache, heap and history after them and the ids returned
GetAll(st, type, size, variants, k) ==
  IF k > Len(variants) THEN st
  ELSE LET g == GetCoefficients(st.cache, st.heap, type, size, variants[k])
           key == getCacheKey(type, size, variants[k])
       IN GetAll([cache |-> g.cache, heap |-> g.heap,
                  last |-> [x \in DOMAIN st.last \cup {key} |->
                              IF x = key THEN GetRecord(g.heap, g.id)
                              ELSE st.last[x]],
                  ids |-> Append(st.ids, g.id)],
                 type, size, variants, k + 1)

\* mutant of WindowsAtThrow: the coefficients fetched before the frame count
\* is tested
WindowsAtThrowFetched(before, got) == got

\* the window cache, heap and history when "Audio too short" is thrown: the
\* throw precedes the getWindowCoefficients calls, whose outcome is `got`
WindowsAtThrow(before, got) == before

\* generateSpectrogram up to the frame loop: hop size, frame count, the
\* throw, the allocations and the window coefficients
StartGeneration(samples, sampleRate, zeroPadding, optHopSize, windowType, gain, range, algorithm, targetWidth) ==
  LET fftSize == ctx.size
      windowSize == FloorDiv(fftSize, zeroPadding)
      numBins == fftSize \div 2 + 1
      requested == RequestedHopSize(optHopSize, fftSize)
      hopSize == CappedHopSize(Len(samples), windowSize, requested, targetWidth)
      numFrames == FrameCount(Len(samples), windowSize, hopSize)
      reassign == algorithm = "reassignment"
      variants == IF reassign THEN <<"standard", "derivative", "timeRamped">>
                  ELSE <<"standard">>
      got == GetAll([cache |-> windowCache, heap |-> heap, last |-> lastGet,
                     ids |-> <<>>], windowType, windowSize, variants, 1)
      coherentGain == CoherentGain(windowType)
      args == [samples |-> samples, sampleRate |-> sampleRate,
               zeroPadding |-> zeroPadding,
               optHopSize |-> optHopSize, windowType |-> windowType,
               gain |-> gain, range |-> range, algorithm |-> algorithm,
               targetWidth |-> targetWidth, fftSize |-> fftSize,
               windowSize |-> windowSize, numBins |-> numBins,
               requestedHop |-> requested, hopSize |-> hopSize,
               numFrames |-> numFrames]
      padLen == IF zeroPadding > 1 THEN fftSize ELSE 0
      thrown == WindowsAtThrow([cache |-> windowCache, heap |-> heap,
                                last |-> lastGet], got)
  IN
  /\ pc = "idle"
  /\ nOps' = nOps + 1
  /\ IF TooShort(numFrames)
     THEN /\ call' = args
          /\ ret' = [op |-> "generateSpectrogram", status |-> "error",
                     message |-> "Audio too short for the given FFT size"]
          /\ windowCache' = thrown.cache
          /\ heap' = thrown.heap
          /\ lastGet' = thrown.last
          /\ UNCHANGED <<ctx, pc, prevGet>>
          /\ UNCHANGED <<rendererVars, firstResult, mapping, demo>>
     ELSE /\ call' = args @@
               [frame |-> 0,
                spectrogram |-> Zeros(numFrames * numBins),
                energyAccum |-> IF reassign THEN Zeros(numFrames * numBins)
                                ELSE <<>>,
                contributions |-> {},
                rejected |-> {},
                made |-> {},
                fftInputs |-> <<>>,
                fftResults |-> <<>>,
                frameRead |-> <<>>,
                windowedH |-> Zeros(windowSize),
                windowedDh |-> IF reassign THEN Zeros(windowSize) ELSE <<>>,
                windowedTh |-> IF reassign THEN Zeros(windowSize) ELSE <<>>,
                paddedH |-> Zeros(padLen),
                paddedDh |-> IF reassign THEN Zeros(padLen) ELSE <<>>,
                paddedTh |-> IF reassign THEN Zeros(padLen) ELSE <<>>,
                coeffIds |-> got.ids,
                coherentGain |-> coherentGain,
                normFactor |-> NormFactor(fftSize, coherentGain)]
          /\ windowCache' = got.cache
          /\ heap' = got.heap
          /\ lastGet' = got.last
          /\ pc' = "frames"
          /\ UNCHANGED <<ctx, ret, prevGet>>
          /\ UNCHANGED <<rendererVars, firstResult, mapping, demo>>

\* one iteration of the frame loop of generateStandardSpectrogram
StandardFrame ==
  LET c == call
      offset == c.frame * c.hopSize
      frameData == Subarray(c.samples, offset, offset + c.windowSize)
      wp == WindowAndPad(frameData, heap[c.coeffIds[1]], c.windowedH, c.paddedH, c)
      f == runFFT(ctx, wp.fftInput, c.fftSize)
  IN
  /\ pc = "frames"
  /\ c.algorithm # "reassignment"
  /\ c.frame < c.numFrames
  /\ ctx' = f.ctx
  /\ call' = [c EXCEPT !.frame = c.frame + 1,
                        !.fftInputs = <<f.ctx.input>>,
                        !.fftResults = <<f.result>>,
                        !.frameRead = <<offset, wp.frameLength>>,
                        !.windowedH = wp.windowed,
                        !.paddedH = wp.padded,
                        !.spectrogram =
                           StandardFrameValues(c.spectrogram, f.result, c.frame, c)]
  /\ UNCHANGED <<windowCache, heap, pc, ret, lastGet, prevGet, nOps>>
  /\ UNCHANGED <<rendererVars, firstResult, mapping, demo>>

\* mutant of RunThird: the three results are the shared output buffer itself,
\* not copies taken after each execute
RunThirdSharedOutput(fH, fDh, fTh) ==
  [X_h |-> fTh.ctx.output, X_Dh |-> fTh.ctx.output, X_Th |-> fTh.ctx.output,
   ctx |-> fTh.ctx,
   inputs |-> <<fH.ctx.input, fDh.ctx.input, fTh.ctx.input>>]

\* the three runFFT calls of a frame, in order on the one context: X_h, X_Dh,
\* X_Th, the context after the third, and (history) the input buffer as each
\* of the three executes read it
RunThird(fH, fDh, fTh) ==
  [X_h |-> fH.result, X_Dh |-> fDh.result, X_Th |-> fTh.result, ctx |-> fTh.ctx,
   inputs |-> <<fH.ctx.input, fDh.ctx.input, fTh.ctx.input>>]

RunSecond(fH, fDh, inTh, fftSize) ==
  RunThird(fH, fDh, runFFT(fDh.ctx, inTh, fftSize))

RunFirst(fH, inDh, inTh, fftSize) ==
  RunSecond(fH, runFFT(fH.ctx, inDh, fftSize), inTh, fftSize)

ThreeFFTs(context, inH, inDh, inTh, fftSize) ==
  RunFirst(runFFT(context, inH, fftSize), inDh, inTh, fftSize)

\* the reassignment loop of one frame over the three transforms t: the
\* locals of the call after it
ReassignedUpdate(c, wH, wDh, wTh, t, made) ==
  [c EXCEPT !.frame = c.frame + 1,
            !.fftInputs = t.inputs,
            !.fftResults = <<t.X_h, t.X_Dh, t.X_Th>>,
            !.frameRead = <<c.frame * c.hopSize, wH.frameLength>>,
            !.made = made,
            !.windowedH = wH.windowed,
            !.windowedDh = wDh.windowed,
            !.windowedTh = wTh.windowed,
            !.paddedH = wH.padded,
            !.paddedDh = wDh.padded,
            !.paddedTh = wTh.padded,
            !.contributions =
               c.contributions \cup
                 {<<r.idx, r.value>> : r \in {m \in made : m.inRange}},
            !.rejected =
               c.rejected \cup
                 {<<r.frame, r.bin, r.value>> :
                    r \in {m \in made : ~m.skip /\ ~m.inRange}},
            !.energyAccum =
               ReassignBins(c.energyAccum, t.X_h, t.X_Dh, t.X_Th, c.frame,
                            dcBinsToSkip, c)]

\* the bins of one frame, reassigned
MadeBy(c, t) ==
  {Reassign(t.X_h, t.X_Dh, t.X_Th, c.frame, bin, c) :
     bin \in dcBinsToSkip..(c.numBins - 1)}

ReassignedStep(c, wH, wDh, wTh, t) ==
  /\ ctx' = t.ctx
  /\ call' = ReassignedUpdate(c, wH, wDh, wTh, t, MadeBy(c, t))

\* one iteration of the frame loop of generateReassignedSpectrogram
ReassignedFrame ==
  LET c == call
      offset == c.frame * c.hopSize
      frameData == Subarray(c.samples, offset, offset + c.windowSize)
      wH == WindowAndPad(frameData, heap[c.coeffIds[1]], c.windowedH, c.paddedH, c)
      wDh == WindowAndPad(frameData, heap[c.coeffIds[2]], c.windowedDh, c.paddedDh, c)
      wTh == WindowAndPad(frameData, heap[c.coeffIds[3]], c.windowedTh, c.paddedTh, c)
  IN
  /\ pc = "frames"
  /\ c.algorithm = "reassignment"
  /\ c.frame < c.numFrames
  /\ ReassignedStep(c, wH, wDh, wTh,
                    ThreeFFTs(ctx, wH.fftInput, wDh.fftInput, wTh.fftInput,
                              c.fftSize))
  /\ UNCHANGED <<windowCache, heap, pc, ret, lastGet, prevGet, nOps>>
  /\ UNCHANGED <<rendererVars, firstResult, mapping, demo>>

\* what two generateSpectrogram calls must share to be the same call: the
\* samples, the options and the configuration of the transform
GenerationKey(c, context) ==
  <<c.samples, c.sampleRate, c.zeroPadding, c.optHopSize, c.windowType, c.gain,
    c.range, c.algorithm, c.targetWidth, context.size, context.isReal>>

\* after the frame loop: spectrogram.set(energyAccum) for reassignment, and
\* the object generateSpectrogram returns
FinishGeneration ==
  LET c == call
      spectrogram == IF c.algorithm = "reassignment"
                     THEN SetInto(c.spectrogram, c.energyAccum)
                     ELSE c.spectrogram
      key == GenerationKey(c, ctx)
  IN
  /\ pc = "frames"
  /\ c.frame >= c.numFrames
  /\ call' = [c EXCEPT !.spectrogram = spectrogram]
  /\ ret' = [op |-> "generateSpectrogram", status |-> "ok",
             data |-> spectrogram, numFrames |-> c.numFrames,
             numBins |-> c.numBins, fftSize |-> c.fftSize,
             windowSize |-> c.windowSize, hopSize |-> c.hopSize,
             sampleRate |-> c.sampleRate,
             duration |-> RoundDiv(Len(c.samples) * 1000000, c.sampleRate)]
  /\ firstResult' = IF key \in DOMAIN firstResult THEN firstResult
                    ELSE [x \in DOMAIN firstResult \cup {key} |->
                            IF x = key THEN ret' ELSE firstResult[x]]
  /\ pc' = "idle"
  /\ UNCHANGED <<windowCache, heap, ctx, lastGet, prevGet, nOps>>
  /\ UNCHANGED <<rendererVars, mapping, demo>>

----------------------------------------------------------------------------
(* Spec: one generateSpectrogram call on a fresh library *)

Waveforms == {"silence", "dc", "alternating", "impulse", "tone"}

\* sample i (0-based) of a test signal, full scale = SCALE
WaveSample(w, i) ==
  CASE w = "silence" -> 0
    [] w = "dc" -> SCALE
    [] w = "alternating" -> IF i % 2 = 0 THEN SCALE ELSE -SCALE
    [] w = "impulse" -> IF i = 0 THEN SCALE ELSE 0
    [] w = "tone" -> Cos(3 * i, 8)

Signal(w, n) == [i \in 1..n |-> WaveSample(w, i - 1)]

\* <<gain, range>> in dB times SCALE
Displays == {<<0, 80 * SCALE>>, <<-40 * SCALE, 20 * SCALE>>}

Generate ==
  /\ nOps = 0
  /\ \E w \in Waveforms, n \in 0..MaxSamples, zeroPadding \in {1, 2},
        optHopSize \in {Undefined} \cup 1..MaxHop,
        windowType \in {"hann", "rectangular"},
        d \in Displays, algorithm \in {"standard", "reassignment"},
        targetWidth \in {Undefined} \cup 0..MaxTargetWidth :
       StartGeneration(Signal(w, n), 8000, zeroPadding, optHopSize, windowType,
                       d[1], d[2], algorithm, targetWidth)

Next == Generate \/ StandardFrame \/ ReassignedFrame \/ FinishGeneration

Spec == Init /\ [][Next]_vars

----------------------------------------------------------------------------
(* The public window operations *)

\* export function getWindowCoefficients(type, size, variant)
GetOp(type, size, variant) ==
  LET g == GetCoefficients(windowCache, heap, type, size, variant)
      key == getCacheKey(type, size, variant)
  IN /\ pc = "idle"
     /\ windowCache' = g.cache
     /\ heap' = g.heap
     /\ ret' = [op |-> "getWindowCoefficients", key |-> key, id |-> g.id,
                contents |-> g.heap[g.id], computed |-> g.computed]
     /\ lastGet' = [x \in DOMAIN lastGet \cup {key} |->
                      IF x = key THEN GetRecord(g.heap, g.id) ELSE lastGet[x]]
     /\ nOps' = nOps + 1
     /\ UNCHANGED <<ctx, pc, call, prevGet>>
     /\ UNCHANGED <<rendererVars, firstResult, mapping, demo>>

\* export function applyWindowCoefficients(frame, coefficients, output?)
\* on the coefficient array id obtained from getWindowCoefficients; output is
\* omitted ("none"), a buffer of the caller ("caller"), or the coefficient
\* array itself, for windowing in place ("coefficients")
ApplyOp(id, frame, output) ==
  LET N == Len(frame)
      out == CASE output = "none" -> Zeros(N)
               [] output = "caller" -> StaleBuffer(N)
               [] output = "coefficients" -> heap[id]
      result == ApplyInto(frame, heap[id], out)
  IN /\ pc = "idle"
     /\ heap' = IF output = "coefficients"
                THEN [heap EXCEPT ![id] = result] ELSE heap
     /\ ret' = [op |-> "applyWindowCoefficients", output |-> output,
                contents |-> result]
     /\ nOps' = nOps + 1
     /\ UNCHANGED <<windowCache, ctx, pc, call, lastGet, prevGet>>
     /\ UNCHANGED <<rendererVars, firstResult, mapping, demo>>

\* export function clearWindowCache()
ClearOp ==
  /\ pc = "idle"
  /\ windowCache' = EmptyFn
  /\ prevGet' = [x \in DOMAIN lastGet \cup DOMAIN prevGet |->
                   IF x \in DOMAIN lastGet THEN lastGet[x] ELSE prevGet[x]]
  /\ lastGet' = EmptyFn
  /\ ret' = [op |-> "clearWindowCache"]
  /\ nOps' = nOps + 1
  /\ UNCHANGED <<heap, ctx, pc, call>>
  /\ UNCHANGED <<rendererVars, firstResult, mapping, demo>>

\* frames a caller windows: silence and full scale
CallerFrames(n) == {Zeros(n), [i \in 1..n |-> SCALE]}

----------------------------------------------------------------------------
(* SpecWindow: sequences of public window operations and generations *)

\* window type names a caller can pass: a supported one, an unknown one, and
\* an unknown one that is also the name of an inherited Object member
CallerTypes == {"hann", "bogus", "toString"}

CallerSizes == {4}

GetWindowCoefficients ==
  /\ nOps < MaxOps
  /\ \E type \in CallerTypes, size \in CallerSizes, variant \in WindowVariants :
       GetOp(type, size, variant)

ApplyWindowCoefficients ==
  /\ nOps < MaxOps
  /\ \E id \in 1..Len(heap), output \in {"none", "caller", "coefficients"} :
       \E frame \in CallerFrames(Len(heap[id])) : ApplyOp(id, frame, output)

ClearWindowCache ==
  /\ nOps < MaxOps
  /\ ClearOp

\* a generateSpectrogram call among the window operations, by reassignment
\* (which asks for all three variants)
GenerateAmongOps ==
  /\ nOps < MaxOps
  /\ \E windowType \in CallerTypes :
       StartGeneration(Signal("impulse", 5), 8000, 2, Undefined, windowType,
                       0, 80 * SCALE, "reassignment", Undefined)

NextWindow ==
  \/ GetWindowCoefficients
  \/ ApplyWindowCoefficients
  \/ ClearWindowCache
  \/ GenerateAmongOps
  \/ ReassignedFrame
  \/ FinishGeneration

SpecWindow == Init /\ [][NextWindow]_vars

----------------------------------------------------------------------------
(* SpecClear: longer sequences of get, window-in-place and clear on few keys *)

ClearKeys == {<<"hann", 4, "standard">>, <<"bogus", 4, "derivative">>}

GetCached ==
  /\ nOps < MaxCacheOps
  /\ \E key \in ClearKeys : GetOp(key[1], key[2], key[3])

WindowInto ==
  /\ nOps < MaxCacheOps
  /\ \E id \in 1..Len(heap), output \in {"none", "coefficients"} :
       ApplyOp(id, Zeros(Len(heap[id])), output)

ClearCached ==
  /\ nOps < MaxCacheOps
  /\ ClearOp

NextClear == GetCached \/ WindowInto \/ ClearCached

SpecClear == Init /\ [][NextClear]_vars

----------------------------------------------------------------------------
(* color-scales.ts *)

ColorScales == {"viridis", "magma", "grayscale", "hot", "inferno"}

\* Math.floor(c0 + c1 * s) for s = sn / sd, sd > 0
FloorLin(c0, c1, sn, sd) == (c0 * sd + c1 * sn) \div sd

\* Math.max(0, Math.min(255, v))
ClampByte(v) == IF v < 0 THEN 0 ELSE IF v > 255 THEN 255 ELSE v

\* Math.floor(255 * (c0 + c1 t + c2 t^2 + c3 t^3)), coefficients in
\* thousandths and t in ten-thousandths, by Horner's rule
FloorCubic(c0, c1, c2, c3, t4) ==
  LET h2 == c2 + RoundDiv(c3 * t4, 10000)
      h1 == c1 + RoundDiv(h2 * t4, 10000)
      h0 == c0 + RoundDiv(h1 * t4, 10000)
  IN (255 * h0) \div 1000

\* COLOR_SCALES[scale](t) for t = num / den: the RGB triplet, in exact
\* rational arithmetic (viridis in fixed point); the double-precision values
\* of the code differ from these by at most 1 on a few entries
COLOR_SCALES(scale, num, den) ==
  CASE scale = "viridis" ->
         LET t4 == RoundDiv(10000 * num, den)
         IN <<ClampByte(FloorCubic(267, 329, 2660, -2350, t4)),
              ClampByte(FloorCubic(4, 1420, -1540, 690, t4)),
              ClampByte(FloorCubic(329, 1420, -2490, 1330, t4))>>
    [] scale = "magma" ->
         IF 4 * num < den
         THEN <<FloorLin(0, 3, 4 * num, den), FloorLin(0, 3, 4 * num, den),
                FloorLin(0, 80, 4 * num, den)>>
         ELSE IF 2 * num < den
         THEN <<FloorLin(3, 177, 4 * num - den, den),
                FloorLin(3, -3, 4 * num - den, den),
                FloorLin(80, 100, 4 * num - den, den)>>
         ELSE IF 4 * num < 3 * den
         THEN <<FloorLin(180, 75, 4 * num - 2 * den, den),
                FloorLin(0, 140, 4 * num - 2 * den, den),
                FloorLin(180, -180, 4 * num - 2 * den, den)>>
         ELSE <<255, FloorLin(140, 115, 4 * num - 3 * den, den),
                FloorLin(0, 255, 4 * num - 3 * den, den)>>
    [] scale = "grayscale" ->
         LET v == (255 * num) \div den IN <<v, v, v>>
    [] scale = "hot" ->
         IF 100 * num < 33 * den
         THEN <<FloorLin(0, 255, 100 * num, 33 * den), 0, 0>>
         ELSE IF 100 * num < 67 * den
         THEN <<255, FloorLin(0, 255, 100 * num - 33 * den, 34 * den), 0>>
         ELSE <<255, 255, FloorLin(0, 255, 100 * num - 67 * den, 33 * den)>>
    [] scale = "inferno" ->
         IF 100 * num < 15 * den
         THEN <<FloorLin(10, 50, 100 * num, 15 * den), 0,
                FloorLin(20, 60, 100 * num, 15 * den)>>
         ELSE IF 100 * num < 40 * den
         THEN <<FloorLin(60, 120, 100 * num - 15 * den, 25 * den),
                FloorLin(0, 20, 100 * num - 15 * den, 25 * den),
                FloorLin(80, 40, 100 * num - 15 * den, 25 * den)>>
         ELSE IF 100 * num < 65 * den
         THEN <<FloorLin(180, 60, 100 * num - 40 * den, 25 * den),
                FloorLin(20, 60, 100 * num - 40 * den, 25 * den),
                FloorLin(120, -100, 100 * num - 40 * den, 25 * den)>>
         ELSE IF 100 * num < 85 * den
         THEN <<255, FloorLin(80, 120, 100 * num - 65 * den, 20 * den),
                FloorLin(20, -20, 100 * num - 65 * den, 20 * den)>>
         ELSE <<255, FloorLin(200, 55, 100 * num - 85 * den, 15 * den),
                FloorLin(0, 100, 100 * num - 85 * den, 15 * den)>>

----------------------------------------------------------------------------
(* renderer.ts: the colour lookup table *)

COLOR_LUT_SIZE == 256

\* a store into a Uint8Array: the value modulo 256, and 0 for NaN
ToUint8(v) == IF v = NaN THEN 0 ELSE v % 256

\* COLOR_SCALES[colorScale] || COLOR_SCALES.magma, as ResolveEntry
ResolveColorScale(colorScale) ==
  IF colorScale \in ColorScales THEN colorScale
  ELSE IF colorScale \in ObjectPrototypeKeys THEN "inherited"
  ELSE "magma"

\* mutant of LutValue: the table sampled at i / COLOR_LUT_SIZE
LutValueOpenEnded(i) == <<i, COLOR_LUT_SIZE>>

\* const value = i / (COLOR_LUT_SIZE - 1), as <<numerator, denominator>>
LutValue(i) == <<i, COLOR_LUT_SIZE - 1>>

\* the colour function of a table entry; an inherited Object member called
\* with a number returns a string, whose first three characters are stored
\* as NaN
ColorAt(fn, value) ==
  IF fn = "inherited" THEN <<NaN, NaN, NaN>>
  ELSE COLOR_SCALES(fn, value[1], value[2])

\* the loop of getColorLUT: COLOR_LUT_SIZE * 3 bytes
BuildLUT(colorScale) ==
  [j \in 1..(COLOR_LUT_SIZE * 3) |->
     ToUint8(ColorAt(ResolveColorScale(colorScale),
                     LutValue((j - 1) \div 3))[((j - 1) % 3) + 1])]

\* colour scale names a caller can pass: the supported ones, an unknown one,
\* and an unknown one that is also the name of an inherited Object member
ColorScaleKeys == ColorScales \cup {"bogus", "toString"}

\* the table the loop of getColorLUT builds for each key
BuiltLUT == [colorScale \in ColorScaleKeys |-> BuildLUT(colorScale)]

\* getColorLUT(colorScale): the cache after the call and the table returned
getColorLUT(cache, colorScale) ==
  IF colorScale \in DOMAIN cache
  THEN [cache |-> cache, lut |-> cache[colorScale], computed |-> FALSE]
  ELSE [cache |-> [x \in DOMAIN cache \cup {colorScale} |->
                     IF x = colorScale THEN BuiltLUT[colorScale] ELSE cache[x]],
        lut |-> BuiltLUT[colorScale], computed |-> TRUE]

\* ((value * lutMax + 0.5) | 0) * 3 for an intensity in SCALE units; NaN | 0
\* is 0
LutOffset(value) ==
  IF value = NaN THEN 0
  ELSE (((value * (COLOR_LUT_SIZE - 1) * 2 + SCALE) \div (2 * SCALE))) * 3

----------------------------------------------------------------------------
(* frequency-mapping.ts: frequencies are whole Hz, bin positions are bins    *)
(* times SCALE                                                               *)

\* 1024 * log2(x), rounded down to a multiple of 1/1024, for an integer x >= 1
Log2K(x) ==
  LET e == FloorLog2(x)
      y == IF e >= 12 THEN x \div Pow2(e - 12) ELSE x * Pow2(12 - e)
  IN 1024 * e + Log2Frac(y, 10)

\* 4096 * 2^(1 / 2^b) for b = 1..10
RootsOfTwo == <<5793, 4871, 4467, 4277, 4186, 4141, 4118, 4107, 4102, 4099>>

RECURSIVE Exp2Frac(_, _, _)
\* y * 2^(f / 1024) for 0 <= f < 1024, taking the binary digits of f from
\* digit b on
Exp2Frac(f, b, y) ==
  IF b > 10 THEN y
  ELSE LET bit == (f \div Pow2(10 - b)) % 2
       IN Exp2Frac(f, b + 1, IF bit = 1 THEN (y * RootsOfTwo[b]) \div 4096 ELSE y)

\* m * 2^(v / 1024), rounded, for v >= 0
Exp2K(m, v) ==
  RoundDiv(m * Pow2(v \div 1024) * Exp2Frac(v % 1024, 1, 4096), 4096)

\* 10000 * Math.log10(x) for an integer x >= 1
Log10(x) == RoundDiv(Log2K(x) * 10000, 3402)

\* m * Math.pow(10, v / 10000), for v >= 0
Pow10(m, v) == Exp2K(m, RoundDiv(v * 3402, 10000))

\* 2595 * Math.log10(1 + hz / 700), in tenths of a mel
hzToMel(hz) == RoundDiv(25950 * (Log2K(700 + hz) - Log2K(700)), 3402)

\* 700 * (Math.pow(10, mel / 2595) - 1)
melToHz(mel) == Exp2K(700, RoundDiv(mel * 3402, 25950)) - 700

\* 21.4 * Math.log10(1 + 0.00437 * hz), in thousandths of an ERB
hzToErb(hz) ==
  RoundDiv(21400 * (Log2K(100000 + 437 * hz) - Log2K(100000)), 3402)

\* (Math.pow(10, erb / 21.4) - 1) / 0.00437
erbToHz(erb) ==
  RoundDiv((Exp2K(1000, RoundDiv(erb * 3402, 21400)) - 1000) * 2288, 10000)

\* the frequency scales modelled (bark, with its arctangent and Newton
\* iteration, is not)
FrequencyScales == {"linear", "log", "mel", "erb"}

\* from + (i / (displayBins - 1)) * (to - from)
Interpolate(from, to, i, displayBins) ==
  from + RoundDiv(i * (to - from), displayBins - 1)

\* the frequency of display bin i in createFrequencyMapping
MappedHz(scale, i, displayBins, minFreq, maxFreq) ==
  CASE scale = "linear" -> Interpolate(minFreq, maxFreq, i, displayBins)
    [] scale = "log" ->
         Pow10(1, Interpolate(Log10(minFreq), Log10(maxFreq), i, displayBins))
    [] scale = "mel" ->
         melToHz(Interpolate(hzToMel(minFreq), hzToMel(maxFreq), i, displayBins))
    [] scale = "erb" ->
         erbToHz(Interpolate(hzToErb(minFreq), hzToErb(maxFreq), i, displayBins))

\* createFrequencyMapping: display bin -> fractional source bin
\* (hz / nyquist) * (numBins - 1)
createFrequencyMapping(numBins, sampleRate, scale, displayBins, minFreq, maxFreq) ==
  LET effectiveMinFreq == Max2(minFreq, 1)
      effectiveMaxFreq == IF 2 * maxFreq > sampleRate THEN sampleRate \div 2
                          ELSE maxFreq
  IN [k \in 1..displayBins |->
        RoundDiv(2 * MappedHz(scale, k - 1, displayBins, effectiveMinFreq,
                              effectiveMaxFreq) * (numBins - 1) * SCALE,
                 sampleRate)]

----------------------------------------------------------------------------
(* renderer.ts: remapping a frame onto the display bins *)

InterpolationModes == {"nearest", "linear", "cubic"}

DownsampleModes == {"nearest", "max", "average"}

\* Math.max(0, Math.min(len - 1, idx))
ClampIndex(idx, len) == IF idx > len - 1 THEN Max2(0, len - 1) ELSE Max2(0, idx)

\* Catmull-Rom: t is the fraction times SCALE
cubicInterpolate(p0, p1, p2, p3, t) ==
  RoundDiv(2 * p1 * SCALE * SCALE * SCALE
           + (p2 - p0) * t * SCALE * SCALE
           + (2 * p0 - 5 * p1 + 4 * p2 - p3) * t * t * SCALE
           + (3 * p1 - p0 - 3 * p2 + p3) * t * t * t,
           2 * SCALE * SCALE * SCALE)

\* sampleSpectrum(spectrum, pos, interpolation), pos >= 0 in bins times SCALE
sampleSpectrum(spectrum, pos, interpolation) ==
  LET len == Len(spectrum)
      at(i) == spectrum[ClampIndex(i, len) + 1]
      idx == pos \div SCALE
      frac == pos % SCALE
  IN CASE interpolation = "nearest" -> at((pos + SCALE \div 2) \div SCALE)
       [] interpolation = "linear" ->
            RoundDiv(at(idx) * (SCALE - frac) + at(idx + 1) * frac, SCALE)
       [] interpolation = "cubic" ->
            Max2(0, cubicInterpolate(at(idx - 1), at(idx), at(idx + 1),
                                     at(idx + 2), frac))

\* x | 0 : the fraction dropped towards zero
TruncInt(x) == IF x >= 0 THEN x \div SCALE ELSE -((-x) \div SCALE)

\* the source range display bin i covers: the midpoints to the neighbouring
\* mapped positions, clamped, and the whole bins binLow..binHigh
CoveredRange(freqMapping, i, displayBins, specLen) ==
  LET srcBin == freqMapping[i + 1]
      rawStart == IF i = 0 THEN srcBin
                  ELSE (freqMapping[i] + srcBin) \div 2
      rawEnd == IF i = 0
                THEN IF i + 1 < displayBins
                     THEN (srcBin + freqMapping[i + 2]) \div 2
                     ELSE srcBin + SCALE \div 2
                ELSE IF i = displayBins - 1 THEN srcBin
                ELSE (srcBin + freqMapping[i + 2]) \div 2
      srcBinStart == IF rawStart < 0 THEN 0 ELSE rawStart
      srcBinEnd == IF rawEnd > (specLen - 1) * SCALE THEN (specLen - 1) * SCALE
                   ELSE rawEnd
  IN [srcBin |-> srcBin, srcBinStart |-> srcBinStart, srcBinEnd |-> srcBinEnd,
      binLow |-> TruncInt(srcBinStart), binHigh |-> TruncInt(srcBinEnd + SCALE)]

\* the source bins the loops of the max and average branches visit
VisitedBins(r, specLen) == {j \in r.binLow..r.binHigh : j < specLen}

\* mutant of CombineMax: the whole source bins left out
CombineSampleOnly(spectrum, sample, bins) == sample

\* the max branch: the interpolated sample, raised by every visited bin
CombineMax(spectrum, sample, bins) ==
  MaxOf({sample} \cup {spectrum[j + 1] : j \in bins})

RECURSIVE SumOver(_, _)
SumOver(spectrum, bins) ==
  IF bins = {} THEN 0
  ELSE LET j == CHOOSE x \in bins : TRUE
       IN spectrum[j + 1] + SumOver(spectrum, bins \ {j})

\* the average branch: sum / count, with the sample counted once
CombineAverage(spectrum, sample, bins) ==
  RoundDiv(sample + SumOver(spectrum, bins), 1 + Cardinality(bins))

\* the three branches of remapSpectrumWithDownsample for a display bin that
\* covers r, with `sample` the spectrum sampled at its fractional position
Combine(spectrum, r, sample, downsampleMode) ==
  IF r.binHigh <= r.binLow \/ downsampleMode = "nearest" THEN sample
  ELSE IF downsampleMode = "max"
  THEN CombineMax(spectrum, sample, VisitedBins(r, Len(spectrum)))
  ELSE CombineAverage(spectrum, sample, VisitedBins(r, Len(spectrum)))

RemapRange(spectrum, r, downsampleMode, interpolation) ==
  Combine(spectrum, r, sampleSpectrum(spectrum, r.srcBin, interpolation),
          downsampleMode)

\* remapped[i] of remapSpectrumWithDownsample
RemapBin(spectrum, freqMapping, i, displayBins, downsampleMode, interpolation) ==
  RemapRange(spectrum, CoveredRange(freqMapping, i, displayBins, Len(spectrum)),
             downsampleMode, interpolation)

----------------------------------------------------------------------------
(* renderer.ts: renderToImageData and renderSpectrogram *)

\* a name-valued option the caller left out (a number-valued one left out is
\* Undefined)
Omitted == "omitted"

\* a destructuring default, or options.x ?? d, of a number-valued option
DefaultTo(v, d) == IF v = Undefined THEN d ELSE v

\* the same for a name-valued option
DefaultName(v, d) == IF v = Omitted THEN d ELSE v

\* getFrequencyAtBin: log in the log domain, every other scale linear in Hz
getFrequencyAtBin(bin, displayBins, minFreq, maxFreq, freqScale) ==
  IF freqScale = "log"
  THEN Pow10(1, Interpolate(Log10(minFreq), Log10(maxFreq), bin, displayBins))
  ELSE Interpolate(minFreq, maxFreq, bin, displayBins)

\* calculateFrequencyGain: the boost in dB times SCALE, frequencyGain in dB
calculateFrequencyGain(hz, frequencyGain) ==
  IF frequencyGain = 0 \/ hz <= 1000 THEN 0
  ELSE RoundDiv(frequencyGain * (Log10(hz) - Log10(1000)) * SCALE, 10000)

\* a typed-array view: the buffer it aliases, its offset and its length
View(buffer, offset, length) ==
  [buffer |-> buffer, offset |-> offset, length |-> length]

\* the elements a view shows
ReadView(mem, v) == Subarray(mem[v.buffer], v.offset, v.offset + v.length)

\* view[i] = value
WriteView(mem, v, i, value) ==
  IF i < v.length /\ v.offset + i < Len(mem[v.buffer])
  THEN [mem EXCEPT ![v.buffer][v.offset + i + 1] = value]
  ELSE mem

\* mutant of OutputView: the frame remapped in place
OutputViewInPlace(frameOffset, displayBins) ==
  View("data", frameOffset, displayBins)

\* the output buffer the renderer hands to remapSpectrumWithDownsample: the
\* displayBuffer allocated before the frame loop
OutputView(frameOffset, displayBins) == View("displayBuffer", 0, displayBins)

RECURSIVE RemapLoop(_, _, _, _, _)
\* the loop of remapSpectrumWithDownsample from display bin i on, reading the
\* spectrum through its view and writing through the output view
RemapLoop(mem, spectrum, output, r, i) ==
  IF i >= r.displayBins THEN mem
  ELSE RemapLoop(WriteView(mem, output, i,
                           RemapBin(ReadView(mem, spectrum), r.freqMapping, i,
                                    r.displayBins, r.downsampleMode,
                                    r.interpolation)),
                 spectrum, output, r, i + 1)

\* mutant of PixelIndex: rows not flipped
PixelIndexUnflipped(frame, bin, displayBins, numFrames) ==
  (bin * numFrames + frame) * 4

\* y = displayBins - 1 - bin; pixelIndex = (y * numFrames + frame) * 4
PixelIndex(frame, bin, displayBins, numFrames) ==
  ((displayBins - 1 - bin) * numFrames + frame) * 4

\* pixels[pixelIndex .. pixelIndex + 3] = r, g, b, 255; writes counts the
\* stores per pixel and intensity keeps the clamped value (history)
WritePixel(mem, pixelIndex, lut, cell, value) ==
  IF pixelIndex + 4 > Len(mem.pixels) \/ pixelIndex < 0 THEN mem
  ELSE [mem EXCEPT !.pixels[pixelIndex + 1] = lut[LutOffset(value) + 1],
                   !.pixels[pixelIndex + 2] = lut[LutOffset(value) + 2],
                   !.pixels[pixelIndex + 3] = lut[LutOffset(value) + 3],
                   !.pixels[pixelIndex + 4] = 255,
                   !.writes[pixelIndex \div 4 + 1] = @ + 1,
                   !.intensity[cell + 1] = value]

RECURSIVE ColorLoop(_, _, _, _)
\* the colour loop of one frame from display bin `bin` on: a value that is
\* NaN stays NaN through the sum and through both comparisons of the clamp
ColorLoop(mem, r, frame, bin) ==
  IF bin >= r.displayBins THEN mem
  ELSE IF mem.displayBuffer[bin + 1] = NaN
  THEN ColorLoop(WritePixel(mem,
                            PixelIndex(frame, bin, r.displayBins, r.numFrames),
                            r.lut, frame * r.displayBins + bin, NaN),
                 r, frame, bin + 1)
  ELSE ColorLoop(WritePixel(mem,
                            PixelIndex(frame, bin, r.displayBins, r.numFrames),
                            r.lut,
                            frame * r.displayBins + bin,
                            Clamp01(mem.displayBuffer[bin + 1]
                                    + r.freqGainFactors[bin + 1])),
                 r, frame, bin + 1)

RECURSIVE FrameLoop(_, _, _)
\* the frame loop of a render from `frame` on.  data.subarray past the end of
\* the matrix is an empty view: every element read from it is undefined, and
\* every remapped value stored for it is NaN
FrameLoop(mem, r, frame) ==
  IF frame >= r.numFrames THEN mem
  ELSE IF frame * r.numBins >= Len(mem.data)
  THEN FrameLoop(ColorLoop([mem EXCEPT !.displayBuffer =
                                         [k \in 1..r.displayBins |-> NaN]],
                           r, frame, 0),
                 r, frame + 1)
  ELSE LET frameOffset == frame * r.numBins
           frameSpectrum == View("data", frameOffset, r.numBins)
           remappedMem == RemapLoop(mem, frameSpectrum,
                                    OutputView(frameOffset, r.displayBins), r, 0)
       IN FrameLoop(ColorLoop(remappedMem, r, frame, 0), r, frame + 1)

\* the image and the cache after the frame loop of a render over the
\* constants r
RenderLoop(sp, r, g, colorScale) ==
  [mem |-> FrameLoop([data |-> sp.data,
                      displayBuffer |-> Zeros(r.displayBins),
                      pixels |-> Zeros(r.width * r.height * 4),
                      writes |-> Zeros(r.width * r.height),
                      intensity |-> Zeros(r.numFrames * r.displayBins)],
                     r, 0),
   width |-> r.width, height |-> r.height,
   cache |-> g.cache, colorScale |-> colorScale, lutComputed |-> g.computed]

\* the constants of a render: sizes, frequency mapping, gain per display bin,
\* modes and lookup table; the image is numFrames wide and displayBins high
RenderConstants(sp, freqScale, effectiveMinFreq, effectiveMaxFreq, frequencyGain, downsampleMode, interpolation, lut) ==
  [numFrames |-> sp.numFrames, numBins |-> sp.numBins,
   displayBins |-> sp.numBins,
   width |-> sp.numFrames, height |-> sp.numBins,
   freqMapping |->
     createFrequencyMapping(sp.numBins, sp.sampleRate, freqScale, sp.numBins,
                            effectiveMinFreq, effectiveMaxFreq),
   freqGainFactors |->
     [k \in 1..sp.numBins |->
        RoundDiv(calculateFrequencyGain(
                   getFrequencyAtBin(k - 1, sp.numBins, effectiveMinFreq,
                                     effectiveMaxFreq, freqScale),
                   frequencyGain), 40)],
   downsampleMode |-> downsampleMode,
   interpolation |-> interpolation,
   lut |-> lut]

RenderWithLUT(sp, o, g, colorScale) ==
  RenderLoop(sp,
             RenderConstants(sp, DefaultName(o.freqScale, "log"),
                             Max2(DefaultTo(o.minFreq, 50), 1),
                             IF DefaultTo(o.maxFreq, 8000) > sp.sampleRate \div 2
                             THEN sp.sampleRate \div 2
                             ELSE DefaultTo(o.maxFreq, 8000),
                             DefaultTo(o.frequencyGain, 0),
                             DefaultName(o.downsampleMode, "max"),
                             DefaultName(o.interpolation, "linear"),
                             g.lut),
             g, colorScale)

\* what both render functions compute from the spectrogram sp and the options
\* o with the lookup-table cache `cache`: the memory after the frame loop
\* (matrix, display buffer, pixels), the image size and the cache
Render(sp, o, cache) ==
  RenderWithLUT(sp, o, getColorLUT(cache, DefaultName(o.colorScale, "magma")),
                DefaultName(o.colorScale, "magma"))

\* the record of a finished render call
Rendered(op, o, out) ==
  [op |-> op, status |-> "ok",
   outputWidth |-> o.outputWidth, outputHeight |-> o.outputHeight,
   width |-> out.width, height |-> out.height, data |-> out.mem.pixels,
   writes |-> out.mem.writes, intensity |-> out.mem.intensity,
   colorScale |-> out.colorScale, lutComputed |-> out.lutComputed]

\* a render call that went through, with result `out`
RenderDone(op, o, out) ==
  /\ image' = Rendered(op, o, out)
  /\ colorLUTCache' = out.cache
  /\ ret' = [ret EXCEPT !.data = out.mem.data]

\* export function renderToImageData(options) on the spectrogram the last
\* generation returned (the timing of returnTiming is not modelled)
RenderImage(o) ==
  /\ pc = "idle"
  /\ ret.op = "generateSpectrogram"
  /\ ret.status = "ok"
  /\ RenderDone("renderToImageData", o, Render(ret, o, colorLUTCache))
  /\ nOps' = nOps + 1
  /\ UNCHANGED <<windowCache, heap, ctx, pc, call, lastGet, prevGet>>
  /\ UNCHANGED <<analysis, remapped, firstResult, mapping, demo>>

\* export function renderSpectrogram(options): canvas.getContext("2d") may
\* return null, and then the call throws before anything else
RenderCanvas(o, hasContext) ==
  /\ pc = "idle"
  /\ ret.op = "generateSpectrogram"
  /\ ret.status = "ok"
  /\ nOps' = nOps + 1
  /\ IF hasContext
     THEN RenderDone("renderSpectrogram", o, Render(ret, o, colorLUTCache))
     ELSE /\ image' = [op |-> "renderSpectrogram", status |-> "error",
                       message |-> "Could not get 2D canvas context"]
          /\ UNCHANGED <<colorLUTCache, ret>>
  /\ UNCHANGED <<windowCache, heap, ctx, pc, call, lastGet, prevGet>>
  /\ UNCHANGED <<analysis, remapped, firstResult, mapping, demo>>

----------------------------------------------------------------------------
(* SpecRender: one generation, then render calls on its result *)

\* a render call with every option left out
DefaultOptions ==
  [colorScale |-> Omitted, freqScale |-> Omitted, minFreq |-> Undefined,
   maxFreq |-> Undefined, frequencyGain |-> Undefined,
   downsampleMode |-> Omitted, interpolation |-> Omitted,
   outputWidth |-> Undefined, outputHeight |-> Undefined]

\* the option records render calls are made with: every frequency scale and
\* every downsample mode with every interpolation mode, every colour scale
\* with and without an output size, and a frequency range with a gain
RenderSettings ==
  {[DefaultOptions EXCEPT !.freqScale = f, !.interpolation = i] :
     f \in FrequencyScales, i \in InterpolationModes}
  \cup
  {[DefaultOptions EXCEPT !.freqScale = "linear", !.downsampleMode = d,
                          !.interpolation = i] :
     d \in DownsampleModes, i \in InterpolationModes}
  \cup
  {[DefaultOptions EXCEPT !.colorScale = c, !.outputWidth = z[1],
                          !.outputHeight = z[2]] :
     c \in ColorScales \cup {Omitted}, z \in {<<Undefined, Undefined>>, <<2, 3>>}}
  \cup
  {[DefaultOptions EXCEPT !.minFreq = 0, !.maxFreq = 4000, !.frequencyGain = 20]}

GenerateForRender ==
  /\ nOps = 0
  /\ \E w \in {"tone", "alternating"}, algorithm \in {"standard", "reassignment"} :
       StartGeneration(Signal(w, 8), 8000, 2, Undefined, "hann",
                       -40 * SCALE, 40 * SCALE, algorithm, Undefined)

RenderToImageData ==
  /\ nOps < 1 + MaxRenders
  /\ \E o \in RenderSettings : RenderImage(o)

\* the option records renderSpectrogram is called with
CanvasSettings ==
  {[DefaultOptions EXCEPT !.colorScale = c] : c \in ColorScales \cup {Omitted}}

RenderSpectrogram ==
  /\ nOps < 1 + MaxRenders
  /\ \/ \E o \in CanvasSettings : RenderCanvas(o, TRUE)
     \/ RenderCanvas(DefaultOptions, FALSE)

NextRender ==
  \/ GenerateForRender
  \/ StandardFrame
  \/ ReassignedFrame
  \/ FinishGeneration
  \/ RenderToImageData
  \/ RenderSpectrogram

SpecRender == Init /\ [][NextRender]_vars

----------------------------------------------------------------------------
(* SpecRemap: remapSpectrumWithDownsample on the spectra and mappings it can
   be handed *)

MaxSpecLen == 3
MaxDisplayBins == 3

\* remapSpectrumWithDownsample(spectrum, freqMapping, displayBins,
\* downsampleMode, interpolation) with a fresh output array
remapSpectrumWithDownsample(spectrum, freqMapping, displayBins, downsampleMode, interpolation) ==
  [k \in 1..displayBins |->
     RemapBin(spectrum, freqMapping, k - 1, displayBins, downsampleMode,
              interpolation)]

\* the frames: every sequence of silent and full-scale bins
Spectra == UNION {[1..n -> {0, SCALE}] : n \in 2..MaxSpecLen}

\* the mapped positions: half bins from 0 to one bin past the last one
MappedPositions(specLen) == {h * (SCALE \div 2) : h \in 0..(2 * specLen)}

\* createFrequencyMapping is monotone: rising when minFreq < maxFreq, falling
\* when the caller passes them the other way round
FrequencyMappings(specLen) ==
  UNION {{m \in [1..d -> MappedPositions(specLen)] :
            \/ \A k \in 1..(d - 1) : m[k] <= m[k + 1]
            \/ \A k \in 1..(d - 1) : m[k] >= m[k + 1]} : d \in 1..MaxDisplayBins}

RemapSpectrumWithDownsample ==
  /\ nOps = 0
  /\ pc = "idle"
  /\ \E spectrum \in Spectra, downsampleMode \in DownsampleModes,
        interpolation \in InterpolationModes :
       \E freqMapping \in FrequencyMappings(Len(spectrum)) :
         remapped' =
           [op |-> "remapSpectrumWithDownsample", spectrum |-> spectrum,
            freqMapping |-> freqMapping, displayBins |-> Len(freqMapping),
            downsampleMode |-> downsampleMode, interpolation |-> interpolation,
            out |-> remapSpectrumWithDownsample(spectrum, freqMapping,
                      Len(freqMapping), downsampleMode, interpolation)]
  /\ nOps' = nOps + 1
  /\ UNCHANGED <<windowCache, heap, ctx, pc, call, ret, lastGet, prevGet>>
  /\ UNCHANGED <<colorLUTCache, image, analysis, firstResult, mapping, demo>>

NextRemap == RemapSpectrumWithDownsample

SpecRemap == Init /\ [][NextRemap]_vars

----------------------------------------------------------------------------
(* SpecRepeat: generateSpectrogram called again with the same arguments, with
   public window operations in between *)

MaxRepeatOps == 4

\* the one call that is repeated, by either algorithm
GenerateAgain ==
  /\ nOps < MaxRepeatOps
  /\ \E algorithm \in {"standard", "reassignment"} :
       StartGeneration(Signal("dc", 5), 8000, 2, Undefined, "hann",
                       0, 80 * SCALE, algorithm, Undefined)

\* the caller asks for the coefficients the generation uses
GetSameWindow ==
  /\ nOps < MaxRepeatOps
  /\ GetOp("hann", 4, "standard")

\* and windows a silent frame with the array just returned, into a fresh
\* array or in place
WindowWithReturned ==
  /\ nOps < MaxRepeatOps
  /\ ret.op = "getWindowCoefficients"
  /\ \E output \in {"none", "coefficients"} :
       ApplyOp(ret.id, Zeros(Len(heap[ret.id])), output)

ClearBetween ==
  /\ nOps < MaxRepeatOps
  /\ ClearOp

NextRepeat ==
  \/ GenerateAgain
  \/ StandardFrame
  \/ ReassignedFrame
  \/ FinishGeneration
  \/ GetSameWindow
  \/ WindowWithReturned
  \/ ClearBetween

SpecRepeat == Init /\ [][NextRepeat]_vars

----------------------------------------------------------------------------
(* spectrogram.ts: analyzeFrequencyRange.  Frequencies are in Hz times SCALE.
   The average energy of a bin is kept as its sum over the frames: every
   comparison of averages is the same comparison of sums. *)

\* sum over the frames of data[frame * numBins + bin], for each bin (model
\* index bin + 1)
EnergySums(data, numFrames, numBins) ==
  LET RECURSIVE Upto(_, _)
      Upto(bin, frame) ==
        IF frame = 0 THEN 0
        ELSE data[(frame - 1) * numBins + bin + 1] + Upto(bin, frame - 1)
  IN [b \in 1..numBins |-> Upto(b - 1, numFrames)]

\* maxEnergy of the peak search, which starts from 0
MaxEnergy(sums) == MaxOf({0} \cup {sums[b] : b \in 1..Len(sums)})

\* peakBin: the first bin that holds maxEnergy, 0 when no bin is above 0
PeakBin(sums) ==
  LET m == MaxEnergy(sums) IN
  IF m = 0 THEN 0
  ELSE (CHOOSE b \in 1..Len(sums) :
          sums[b] = m /\ \A a \in 1..(b - 1) : sums[a] < m) - 1

\* mutant of IsSilent: the early return left out
IsSilentNever(maxEnergy) == FALSE

\* maxEnergy === 0
IsSilent(maxEnergy) == maxEnergy = 0

\* sortedUpper[Math.floor(sortedUpper.length / 2)] of the bins from
\* Math.floor(numBins * 0.75) on
NoiseFloor(sums) ==
  LET numBins == Len(sums)
      upper == ((3 * numBins) \div 4 + 1)..numBins
      k == Cardinality(upper) \div 2
  IN CHOOSE v \in {sums[b] : b \in upper} :
       /\ Cardinality({b \in upper : sums[b] < v}) <= k
       /\ Cardinality({b \in upper : sums[b] <= v}) > k

\* avgEnergy[bin] > noiseFloor + (maxEnergy - noiseFloor) * 0.05
AboveThreshold(sums, bin, noiseFloor, maxEnergy) ==
  20 * sums[bin + 1] > 19 * noiseFloor + maxEnergy

\* minBin: the lowest bin from 3 up to the peak above the threshold, else 3
MinBin(sums, peakBin, noiseFloor, maxEnergy) ==
  LET above == {bin \in 3..(peakBin - 1) :
                  AboveThreshold(sums, bin, noiseFloor, maxEnergy)}
  IN IF above = {} THEN 3
     ELSE CHOOSE bin \in above : \A other \in above : bin <= other

\* maxBin: the highest bin from the top down to the peak above the threshold,
\* else numBins - 1
MaxBin(sums, peakBin, noiseFloor, maxEnergy) ==
  LET above == {bin \in (peakBin + 1)..(Len(sums) - 1) :
                  AboveThreshold(sums, bin, noiseFloor, maxEnergy)}
  IN IF above = {} THEN Len(sums) - 1 ELSE MaxOf(above)

\* Math.floor(binToHz(bin) / 10) * 10, binToHz(bin) = bin / (numBins - 1) *
\* sampleRate / 2, in Hz
FloorToTen(bin, numBins, sampleRate) ==
  ((bin * sampleRate) \div (20 * (numBins - 1))) * 10

\* Math.ceil(binToHz(bin) / 100) * 100, in Hz
CeilToHundred(bin, numBins, sampleRate) ==
  (-((-(bin * sampleRate)) \div (200 * (numBins - 1)))) * 100

Min2(a, b) == IF a < b THEN a ELSE b

\* the three statements under "Ensure reasonable bounds", on Hz times SCALE
ReasonableBounds(minHz, maxHz, nyquist) ==
  LET minFreq == Max2(20 * SCALE, minHz * SCALE)
      capped == Min2(nyquist, maxHz * SCALE)
  IN [minFreq |-> minFreq, maxFreq |-> Max2(minFreq + 500 * SCALE, capped)]

\* the range found when the matrix is not silent
ContentRange(sums, peakBin, noiseFloor, maxEnergy, sampleRate) ==
  LET minBin == MinBin(sums, peakBin, noiseFloor, maxEnergy)
      maxBin == MaxBin(sums, peakBin, noiseFloor, maxEnergy)
      numBins == Len(sums)
  IN ReasonableBounds(FloorToTen(minBin, numBins, sampleRate),
                      CeilToHundred(maxBin, numBins, sampleRate),
                      (sampleRate * SCALE) \div 2)
       @@ [silent |-> FALSE, peakBin |-> peakBin, minBin |-> minBin,
           maxBin |-> maxBin]

RangeOfSums(sums, maxEnergy, sampleRate) ==
  IF IsSilent(maxEnergy)
  THEN [minFreq |-> 20 * SCALE, maxFreq |-> (sampleRate * SCALE) \div 2,
        silent |-> TRUE, peakBin |-> 0, minBin |-> 3, maxBin |-> Len(sums) - 1]
  ELSE ContentRange(sums, PeakBin(sums), NoiseFloor(sums), maxEnergy, sampleRate)

\* analyzeFrequencyRange(spectrogram): minFreq and maxFreq, and (history) the
\* bins it found
analyzeFrequencyRange(sp) ==
  LET sums == EnergySums(sp.data, sp.numFrames, sp.numBins)
  IN RangeOfSums(sums, MaxEnergy(sums), sp.sampleRate)

----------------------------------------------------------------------------
(* SpecAnalyze: analyzeFrequencyRange on silent and sparsely lit matrices *)

MaxLitCells == 2

\* <<numFrames, numBins>>: transforms of size 8 (one frame, and two for the
\* averages to differ from the cells) and of size 32
AnalyzedShapes == {<<1, 5>>, <<2, 5>>, <<1, 17>>}

AnalyzedRates == {8000, 11025, 44100}

\* matrices of normalized values with at most MaxLitCells cells above 0, each
\* at half or full scale
Matrices(numFrames, numBins) ==
  LET cells == 1..(numFrames * numBins)
      RECURSIVE UpTo(_)
      UpTo(k) == IF k = 0 THEN {{}}
                 ELSE LET fewer == UpTo(k - 1)
                      IN fewer \cup {S \cup {c} : S \in fewer, c \in cells}
  IN UNION {{[i \in cells |-> IF i \in S THEN v[i] ELSE 0] :
               v \in [S -> {SCALE \div 2, SCALE}]} : S \in UpTo(MaxLitCells)}

AnalyzeFrequencyRange ==
  /\ nOps = 0
  /\ pc = "idle"
  /\ \E shape \in AnalyzedShapes, sampleRate \in AnalyzedRates :
       \E data \in Matrices(shape[1], shape[2]) :
         LET sp == [data |-> data, numFrames |-> shape[1],
                    numBins |-> shape[2], sampleRate |-> sampleRate]
         IN analysis' = [op |-> "analyzeFrequencyRange", spectrogram |-> sp,
                         range |-> analyzeFrequencyRange(sp)]
  /\ nOps' = nOps + 1
  /\ UNCHANGED <<windowCache, heap, ctx, pc, call, ret, lastGet, prevGet>>
  /\ UNCHANGED <<colorLUTCache, image, remapped, firstResult, mapping, demo>>

NextAnalyze == AnalyzeFrequencyRange

SpecAnalyze == Init /\ [][NextAnalyze]_vars

----------------------------------------------------------------------------
(* SpecColor: one generation, then render calls with every colour-scale key
   a caller can pass *)

MaxColorRenders == 2

RenderWithColorScale ==
  /\ nOps < 1 + MaxColorRenders
  /\ \E c \in ColorScaleKeys \cup {Omitted} :
       RenderImage([DefaultOptions EXCEPT !.colorScale = c])

NextColor ==
  \/ GenerateForRender
  \/ StandardFrame
  \/ ReassignedFrame
  \/ FinishGeneration
  \/ RenderWithColorScale

SpecColor == Init /\ [][NextColor]_vars

----------------------------------------------------------------------------
(* SpecMapping: createFrequencyMapping as the render functions call it *)

\* the matrices rendered: numBins and sampleRate
MappedShapes == {<<5, 8000>>, <<9, 8000>>, <<5, 44100>>}

\* the minFreq and maxFreq options of a render call, in Hz
MinFreqOptions == {0, 1, 20, 50, 1000, 3000, 5000}

MaxFreqOptions == {100, 2000, 4000, 8000, 20000}

\* renderToImageData / renderSpectrogram: displayBins = numBins,
\* effectiveMinFreq = Math.max(minFreq, 1), effectiveMaxFreq =
\* Math.min(maxFreq, nyquist), then createFrequencyMapping
CreateFrequencyMapping ==
  /\ nOps = 0
  /\ mapping.op = "none"
  /\ \E shape \in MappedShapes, scale \in FrequencyScales,
        minFreq \in MinFreqOptions, maxFreq \in MaxFreqOptions :
       LET numBins == shape[1]
           sampleRate == shape[2]
           effectiveMinFreq == Max2(minFreq, 1)
           effectiveMaxFreq == Min2(maxFreq, sampleRate \div 2)
       IN mapping' = [op |-> "createFrequencyMapping", numBins |-> numBins,
                      sampleRate |-> sampleRate, scale |-> scale,
                      displayBins |-> numBins,
                      minFreq |-> effectiveMinFreq,
                      maxFreq |-> effectiveMaxFreq,
                      out |-> createFrequencyMapping(numBins, sampleRate,
                                scale, numBins, effectiveMinFreq,
                                effectiveMaxFreq)]
  /\ UNCHANGED <<libraryVars, demo>>

NextMapping == CreateFrequencyMapping

SpecMapping == Init /\ [][NextMapping]_vars

----------------------------------------------------------------------------
(* demo/src/main.ts: the handlers of the demo page, each as the page state
   after it.  Two controls are modelled, the select "algorithm" (onChange
   "reprocess") and the select "colorScale" (onChange "rerender"); fftSize,
   zeroPadding and overlap stay at their defaults.  The field `undone` is
   history: the last event handled was an undo that popped a state. *)

MAX_UNDO_STATES == 10

Algorithms == {"standard", "reassignment"}

\* the audio generateTestTone makes: duration * sampleRate samples
TestTone == [audio |-> "tone", startSample |-> 0, endSample |-> 2 * 44100]

\* the audio a file or the default WHERE.WAV decodes to
DecodedAudio(name) == [audio |-> name, startSample |-> 0, endSample |-> 60000]

\* samples.length
SampleCount(samples) == samples.endSample - samples.startSample

\* samples.slice(start, end) for 0 <= start, clipped to the array
Slice(samples, start, end) ==
  LET n == SampleCount(samples)
      lo == Min2(start, n)
      hi == Max2(lo, Min2(end, n))
  IN [audio |-> samples.audio, startSample |-> samples.startSample + lo,
      endSample |-> samples.startSample + hi]

\* captureState(): the control values, a copy of the zoom stack, the size
captureState(d) ==
  [controlValues |-> d.controlValues, zoomStack |-> d.zoomStack,
   isCustomSize |-> d.isCustomSize, customWidth |-> d.customWidth,
   customHeight |-> d.customHeight]

RECURSIVE ShiftDown(_)
\* while (undoStack.length > MAX_UNDO_STATES) undoStack.shift()
ShiftDown(undoStack) ==
  IF Len(undoStack) > MAX_UNDO_STATES THEN ShiftDown(Tail(undoStack))
  ELSE undoStack

\* pushUndoState()
pushUndoState(d) ==
  IF d.isRestoringState THEN d
  ELSE [d EXCEPT !.undoStack = ShiftDown(Append(@, captureState(d)))]

\* generateSpectrogram as processAndRender calls it, fftSize 2048, zeroPadding
\* 1, overlap 0.9375, targetWidth 4000: what it throws or returns
DemoGenerate(samples, algorithm) ==
  LET windowSize == 2048
      hopSize == CappedHopSize(SampleCount(samples), windowSize,
                               FloorDiv(windowSize * 625, 10000), 4000)
  IN IF TooShort(FrameCount(SampleCount(samples), windowSize, hopSize))
     THEN [status |-> "error"]
     ELSE [status |-> "ok",
           spectrogram |-> [algorithm |-> algorithm, samples |-> samples]]

\* renderSpectrogram({canvas, spectrogram, ...getRenderOptions()})
Draw(d, spectrogram) ==
  [d EXCEPT !.canvas = [algorithm |-> spectrogram.algorithm,
                        samples |-> spectrogram.samples,
                        colorScale |-> d.controlValues.colorScale]]

\* rerender()
rerender(d) ==
  IF d.currentSpectrogram = NoSpectrogram THEN d
  ELSE Draw(d, d.currentSpectrogram)

\* processAndRender() up to its await: nothing without samples, else the
\* controls are read and createWatFFTContext is awaited; `loader` says that
\* a load function awaits the call
processAndRender(d, loader) ==
  IF d.currentSamples = NoSamples THEN d
  ELSE [d EXCEPT !.pending =
                    Append(@, [algorithm |-> d.controlValues.algorithm,
                               loader |-> loader]),
                 !.lastStarted =
                    [algorithm |-> d.controlValues.algorithm,
                     samples |-> d.currentSamples]]

\* processAndRender() after its await: generateSpectrogram with the controls
\* read before the await and the samples current now, then renderSpectrogram
\* with the render options current now; a throw is caught
processAndRenderResumed(d, algorithm) ==
  LET generated == DemoGenerate(d.currentSamples, algorithm)
  IN IF generated.status = "error" THEN d
     ELSE Draw([d EXCEPT !.currentSpectrogram = generated.spectrogram],
               generated.spectrogram)

\* loadAudioFile / loadDefaultAudio after await processAndRender(): the
\* spectrogram drawn again on its analyzed range, the undo stack cleared and
\* the initial state pushed
LoadResumed(d) ==
  pushUndoState([rerender(d) EXCEPT !.undoStack = <<>>])

\* the await of createWatFFTContext of pending call k resolves
contextCreated(d, k) ==
  LET entry == d.pending[k]
      rest == [i \in 1..(Len(d.pending) - 1) |->
                 IF i < k THEN d.pending[i] ELSE d.pending[i + 1]]
      resumed == processAndRenderResumed([d EXCEPT !.pending = rest],
                                         entry.algorithm)
  IN IF entry.loader THEN LoadResumed(resumed) ELSE resumed

\* the change listener of a select with onChange "reprocess"
selectReprocess(d, id, value) ==
  pushUndoState(processAndRender([d EXCEPT !.controlValues[id] = value], FALSE))

\* the change listener of a select with onChange "rerender"
selectRerender(d, id, value) ==
  pushUndoState(rerender([d EXCEPT !.controlValues[id] = value]))

\* zoomToRegion(startX, endX) for a selection from a to b percent of the
\* canvas width, a <= b
zoomToRegion(d, a, b) ==
  LET numSamples == SampleCount(d.currentSamples)
      startSample == (a * numSamples) \div 100
      endSample == -((-(b * numSamples)) \div 100)
      original == IF d.originalSamples = NoSamples THEN d.currentSamples
                  ELSE d.originalSamples
      lastZoom == d.zoomStack[Len(d.zoomStack)]
      currentLength == lastZoom.endSample - lastZoom.startSample
      absoluteStart == IF d.zoomStack = <<>> THEN startSample
                       ELSE lastZoom.startSample + (a * currentLength) \div 100
      absoluteEnd == IF d.zoomStack = <<>> THEN endSample
                     ELSE lastZoom.startSample
                            - ((-(b * currentLength)) \div 100)
  IN IF d.currentSamples = NoSamples \/ d.currentSpectrogram = NoSpectrogram
     THEN d
     ELSE IF b - a < 2 THEN d
     ELSE IF endSample - startSample < 1000 THEN d
     ELSE pushUndoState(processAndRender(
            [d EXCEPT !.originalSamples = original,
                      !.zoomStack = Append(@, [startSample |-> absoluteStart,
                                               endSample |-> absoluteEnd]),
                      !.currentSamples = Slice(original, absoluteStart,
                                               absoluteEnd)],
            FALSE))

\* resetZoom()
resetZoom(d) ==
  IF d.originalSamples = NoSamples THEN d
  ELSE pushUndoState(processAndRender(
         [d EXCEPT !.currentSamples = d.originalSamples, !.zoomStack = <<>>],
         FALSE))

\* setCustomSize(width, height)
setCustomSize(d, width, height) ==
  [d EXCEPT !.isCustomSize = TRUE, !.customWidth = Max2(100, width),
            !.customHeight = Max2(50, height)]

\* resetSize()
resetSize(d) == [d EXCEPT !.isCustomSize = FALSE]

\* a drag of a resize handle to width x height: setCustomSize on mousedown
\* and on every mousemove, pushUndoState in onResizeEnd
onResizeEnd(d, width, height) == pushUndoState(setCustomSize(d, width, height))

\* generateTestTone()
generateTestTone(d) ==
  pushUndoState(
    [processAndRender([d EXCEPT !.currentSamples = TestTone,
                                !.originalSamples = NoSamples,
                                !.zoomStack = <<>>], FALSE)
       EXCEPT !.undoStack = <<>>])

\* loadAudioFile / loadDefaultAudio once the audio is decoded, up to
\* await processAndRender()
audioDecoded(d, name) ==
  processAndRender([d EXCEPT !.currentSamples = DecodedAudio(name),
                             !.originalSamples = NoSamples,
                             !.zoomStack = <<>>], TRUE)

\* restoreState(state)
restoreState(d, state) ==
  LET sized == IF state.isCustomSize
               THEN setCustomSize(d, state.customWidth, state.customHeight)
               ELSE resetSize(d)
      lastZoom == state.zoomStack[Len(state.zoomStack)]
      samples == IF d.originalSamples = NoSamples THEN d.currentSamples
                 ELSE IF state.zoomStack # <<>>
                 THEN Slice(d.originalSamples, lastZoom.startSample,
                            lastZoom.endSample)
                 ELSE d.originalSamples
      restoring == [sized EXCEPT !.isRestoringState = TRUE,
                                 !.controlValues = state.controlValues,
                                 !.zoomStack = state.zoomStack,
                                 !.currentSamples = samples]
  IN [processAndRender(restoring, FALSE) EXCEPT !.isRestoringState = FALSE]

\* mutant of undo: the last state may be popped as well
undoToEmpty(d) ==
  IF Len(d.undoStack) < 1 THEN d
  ELSE LET popped == [d EXCEPT !.undoStack = SubSeq(@, 1, Len(@) - 1)]
       IN IF popped.undoStack = <<>> THEN popped
          ELSE restoreState(popped, popped.undoStack[Len(popped.undoStack)])

\* undo()
undo(d) ==
  IF Len(d.undoStack) < 2 THEN d
  ELSE LET popped == [d EXCEPT !.undoStack = SubSeq(@, 1, Len(@) - 1)]
       IN restoreState(popped, popped.undoStack[Len(popped.undoStack)])

\* the page after an event handler left it as `d`
Handled(d) ==
  /\ demo' = [d EXCEPT !.undone = FALSE]
  /\ UNCHANGED <<libraryVars, mapping>>

\* a createWatFFTContext promise resolves and its processAndRender call, with
\* the load function awaiting it, runs to its end
ContextCreated ==
  \E k \in 1..Len(demo.pending) : Handled(contextCreated(demo, k))

----------------------------------------------------------------------------
(* SpecUndo: the demo page with a user who lets loadDefaultAudio and every
   processAndRender call finish before the next event *)

\* the selections dragged on the canvas, in percent of its width
Selections == {<<0, 5>>, <<10, 11>>}

\* the sizes a resize handle is dragged to, in pixels
DraggedSizes == {<<640, 30>>}

Idle == demo.pending = <<>> /\ demo.defaultAudio # "fetching"

\* the colour scales the user picks in the select
ChosenColorScales == {"viridis"}

ColorScaleChange ==
  /\ Idle
  /\ \E value \in ChosenColorScales \ {demo.controlValues.colorScale} :
       Handled(selectRerender(demo, "colorScale", value))

ZoomToRegion ==
  /\ Idle
  /\ \E sel \in Selections : Handled(zoomToRegion(demo, sel[1], sel[2]))

\* the click listener of resetZoomBtn, which updateZoomIndicator shows only
\* while zoomed
ResetZoom ==
  /\ Idle
  /\ demo.zoomStack # <<>>
  /\ Handled(resetZoom(demo))

\* a drag that changes the size
ResizeEnd ==
  /\ Idle
  /\ \E size \in DraggedSizes :
       /\ setCustomSize(demo, size[1], size[2]) # demo
       /\ Handled(onResizeEnd(demo, size[1], size[2]))

GenerateTestTone == Idle /\ Handled(generateTestTone(demo))

DefaultAudioLoaded ==
  /\ demo.defaultAudio = "fetching"
  /\ Handled([audioDecoded(demo, "WHERE.WAV") EXCEPT !.defaultAudio = "settled"])

DefaultAudioFailed ==
  /\ demo.defaultAudio = "fetching"
  /\ Handled([demo EXCEPT !.defaultAudio = "settled"])

\* Ctrl+Z
Undo ==
  /\ Idle
  /\ demo' = [undo(demo) EXCEPT !.undone = Len(demo.undoStack) >= 2]
  /\ UNCHANGED <<libraryVars, mapping>>

NextUndo ==
  \/ ColorScaleChange
  \/ ZoomToRegion
  \/ ResetZoom
  \/ ResizeEnd
  \/ GenerateTestTone
  \/ DefaultAudioLoaded
  \/ DefaultAudioFailed
  \/ Undo
  \/ ContextCreated

SpecUndo == Init /\ [][NextUndo]_vars

----------------------------------------------------------------------------
(* SpecDemo: the demo page with a user whose events do not wait for the
   processAndRender calls in flight *)

MaxDemoEvents == 3

\* the change listener of the select "algorithm"
ChangeAlgorithm ==
  /\ nOps < MaxDemoEvents
  /\ nOps' = nOps + 1
  /\ \E value \in Algorithms \ {demo.controlValues.algorithm} :
       demo' = selectReprocess(demo, "algorithm", value)
  /\ UNCHANGED <<windowCache, heap, ctx, pc, call, ret, lastGet, prevGet>>
  /\ UNCHANGED <<rendererVars, firstResult, mapping>>

\* the click listener of the button "generateSynth"
ClickGenerateTestTone ==
  /\ nOps < MaxDemoEvents
  /\ nOps' = nOps + 1
  /\ demo' = generateTestTone(demo)
  /\ UNCHANGED <<windowCache, heap, ctx, pc, call, ret, lastGet, prevGet>>
  /\ UNCHANGED <<rendererVars, firstResult, mapping>>

\* the mouseup listener that ends a selection on the canvas
DragSelection ==
  /\ nOps < MaxDemoEvents
  /\ nOps' = nOps + 1
  /\ \E sel \in Selections : demo' = zoomToRegion(demo, sel[1], sel[2])
  /\ UNCHANGED <<windowCache, heap, ctx, pc, call, ret, lastGet, prevGet>>
  /\ UNCHANGED <<rendererVars, firstResult, mapping>>

NextDemo ==
  \/ ChangeAlgorithm
  \/ ClickGenerateTestTone
  \/ DragSelection
  \/ ContextCreated

SpecDemo == Init /\ [][NextDemo]_vars

----------------------------------------------------------------------------
(* Properties of generateSpectrogram (checked under Spec) *)

\* the last public call was a generateSpectrogram that returned
GenOk == pc = "idle" /\ ret.op = "generateSpectrogram" /\ ret.status = "ok"

\* the last public call was a generateSpectrogram that threw
GenFailed == pc = "idle" /\ ret.op = "generateSpectrogram" /\ ret.status = "error"

TargetGiven == call.targetWidth # Undefined /\ call.targetWidth > 0

\* C1: a successful generateSpectrogram returns numFrames =
\* floor((numSamples - windowSize) / hopSize) + 1 for the returned windowSize
\* and the returned (possibly capped) hopSize, numBins = fftSize / 2 + 1, and
\* a matrix of exactly numFrames * numBins entries.
C1_FrameAndBinCounts ==
  GenOk =>
    /\ ret.numFrames =
         ((Len(call.samples) - ret.windowSize) \div ret.hopSize) + 1
    /\ 2 * (ret.numBins - 1) = ret.fftSize
    /\ Len(ret.data) = ret.numFrames * ret.numBins

C1_Witness ==
  /\ GenOk
  /\ TargetGiven
  /\ ret.hopSize > call.requestedHop
  /\ ret.numFrames >= 2
  /\ call.zeroPadding = 2
  /\ call.algorithm = "reassignment"

\* C2: generateSpectrogram throws the "too short" error exactly when
\* floor((numSamples - windowSize) / hopSize) + 1 <= 0, which is exactly when
\* there are fewer samples than one window; it then returns no matrix, and it
\* succeeds whenever numSamples >= windowSize.
C2_InsufficientAudio ==
  /\ (pc = "idle" /\ ret.op = "generateSpectrogram") =>
       LET n == Len(call.samples)
           frames == ((n - call.windowSize) \div call.hopSize) + 1
       IN /\ (ret.status = "error") <=> (frames <= 0)
          /\ (ret.status = "error") <=> (n < call.windowSize)
          /\ ret.status = "error" =>
                /\ "data" \notin DOMAIN ret
                /\ ret.message = "Audio too short for the given FFT size"
  /\ pc = "frames" => Len(call.samples) >= call.windowSize

C2_Witness ==
  /\ GenFailed
  /\ Len(call.samples) = call.windowSize - 1
  /\ call.algorithm = "reassignment"
  /\ TargetGiven

\* C28: a generateSpectrogram call that fails for insufficient audio ran no
\* transform, wrote nothing to the input buffer and created no window-cache
\* entry: the context's buffers, the window cache with its arrays and the
\* samples are after the call what they were before it.
C28_FailureTouchesNothing ==
  [][(pc = "idle" /\ ~GenFailed /\ GenFailed')
       => /\ ctx' = ctx
          /\ windowCache' = windowCache
          /\ heap' = heap
          /\ lastGet' = lastGet
          /\ \E w \in Waveforms : call'.samples = Signal(w, Len(call'.samples))]_vars

\* a failed standard generation of some samples on a context whose input
\* buffer holds the values of an earlier owner
C28_Witness ==
  /\ GenFailed
  /\ call.algorithm = "standard"
  /\ Len(call.samples) > 0
  /\ \E i \in 1..Len(ctx.input) : ctx.input[i] # 0
  /\ windowCache = EmptyFn

\* C3: with a positive targetWidth the number of frames produced never
\* exceeds targetWidth.
C3_FramesWithinTargetWidth ==
  (GenOk /\ TargetGiven) => ret.numFrames <= call.targetWidth

\* C4: the hop size used and returned is never smaller than the requested one
\* (options.hopSize, or floor(fftSize / 4) when omitted) and equals it when no
\* targetWidth is given or the requested hop already gives at most
\* targetWidth frames.
C4_HopNeverDecreased ==
  GenOk =>
    LET requested == IF call.optHopSize = Undefined THEN ret.fftSize \div 4
                     ELSE call.optHopSize
        frames == ((Len(call.samples) - ret.windowSize) \div requested) + 1
    IN /\ ret.hopSize = call.hopSize
       /\ ret.hopSize >= requested
       /\ (~TargetGiven \/ frames <= call.targetWidth) => ret.hopSize = requested

C4_Witness ==
  /\ GenOk
  /\ TargetGiven
  /\ call.optHopSize # Undefined
  /\ ret.hopSize = call.optHopSize
  /\ ret.numFrames = call.targetWidth
  /\ ret.numFrames >= 2

\* C5: every entry of the matrix returned by a successful generateSpectrogram
\* lies in [0, 1], for both algorithms and any gain and range.
C5_ValuesInUnitInterval ==
  GenOk => \A i \in 1..Len(ret.data) : ret.data[i] >= 0 /\ ret.data[i] <= SCALE

C5_Witness ==
  /\ GenOk
  /\ call.gain < 0
  /\ \E i, j \in 1..Len(ret.data) :
       /\ ret.data[i] = SCALE
       /\ (j - 1) % ret.numBins >= dcBinsToSkip
       /\ ret.data[j] = 0

\* C6: bins 0, 1 and 2 of every frame of the returned matrix are exactly 0,
\* for the standard and for the reassignment algorithm.
C6_DcBinsZero ==
  GenOk =>
    \A f \in 0..(ret.numFrames - 1), b \in 0..2 :
      ret.data[f * ret.numBins + b + 1] = 0

C6_Witness ==
  /\ GenOk
  /\ call.algorithm = "reassignment"
  /\ \E r \in call.rejected :
       r[2] \in 0..2 /\ r[1] \in 0..(ret.numFrames - 1) /\ r[3] > 0

\* C7: in the reassignment algorithm every cell holds the maximum of the
\* values reassigned to it so far, and 0 if there was none, during the frame
\* loop and in the returned matrix: contributions are never summed.
C7_MaxAccumulation ==
  LET cellMax(idx) ==
        MaxOf({0} \cup {p[2] : p \in {q \in call.contributions : q[1] = idx}})
  IN /\ (pc = "frames" /\ call.algorithm = "reassignment") =>
          \A idx \in 0..(Len(call.energyAccum) - 1) :
            call.energyAccum[idx + 1] = cellMax(idx)
     /\ (GenOk /\ call.algorithm = "reassignment") =>
          \A idx \in 0..(Len(ret.data) - 1) : ret.data[idx + 1] = cellMax(idx)

C7_Witness ==
  /\ GenOk
  /\ call.algorithm = "reassignment"
  /\ \E a, b \in call.contributions :
       a[1] = b[1] /\ a[2] > 0 /\ a[2] < b[2]

----------------------------------------------------------------------------
(* Properties of the window cache (checked under SpecWindow and SpecClear) *)

\* C8: as long as clearWindowCache is not called, every getWindowCoefficients
\* call for a key returns the array the previous call for that key returned,
\* with the contents it had then.
C8_SameKeySameArray ==
  [][\A k \in DOMAIN lastGet \cap DOMAIN lastGet' : lastGet'[k] = lastGet[k]]_vars

\* C9: clearWindowCache empties the cache, and the first
\* getWindowCoefficients call for a key after it recomputes the coefficients
\* into a fresh array whose contents equal those returned before the clear.
C9_ClearThenRecompute ==
  [][/\ ret'.op = "clearWindowCache" => DOMAIN windowCache' = {}
     /\ (/\ nOps' = nOps + 1
         /\ ret'.op = "getWindowCoefficients"
         /\ ret'.key \notin DOMAIN lastGet
         /\ ret'.key \in DOMAIN prevGet)
        => /\ ret'.computed
           /\ ret'.id \notin 1..Len(heap)
           /\ ret'.contents = prevGet[ret'.key].contents]_vars

\* C10: for a window type that is not one of the five supported types,
\* getWindowCoefficients computes the Hann coefficients of the requested size
\* for each of the three variants, and generation normalizes with the Hann
\* coherent gain 0.5.
C10_UnknownTypeIsHann ==
  /\ (/\ ret.op = "getWindowCoefficients"
      /\ ret.computed
      /\ ret.key[1] \notin WindowTypes)
     => ret.contents = ComputeCoefficients("hann", ret.key[2], ret.key[3])
  /\ (pc = "frames" /\ call.windowType \notin WindowTypes)
     => /\ call.coherentGain = SCALE \div 2
        /\ 4 * call.normFactor = call.fftSize * SCALE

----------------------------------------------------------------------------
(* Properties of the renderer (checked under SpecRender) *)

\* the last render call returned or drew an image
RenderOk == image.op \in {"renderToImageData", "renderSpectrogram"} /\ image.status = "ok"

\* the three colour bytes of the pixel that starts at byte p (0-based)
PixelRGB(p) == <<image.data[p + 1], image.data[p + 2], image.data[p + 3]>>

\* the three bytes of the lookup table of key sc that intensity t selects
\* (t in SCALE units): entry round(t * 255)
LookedUp(sc, t) ==
  LET k == ((t * 255 * 2 + SCALE) \div (2 * SCALE)) * 3
  IN <<colorLUTCache[sc][k + 1], colorLUTCache[sc][k + 2], colorLUTCache[sc][k + 3]>>

\* C11: for each of the five colour scales, the table entry the renderer
\* looks up for intensity 0 is the colour function's value at 0 and the entry
\* it looks up for intensity 1 is the function's value at 1 (entries 0 and
\* 255), in the cached table and in every pixel of intensity 0 or 1.
C11_LutEndpoints ==
  /\ \A sc \in DOMAIN colorLUTCache \cap ColorScales :
       /\ LookedUp(sc, 0) = COLOR_SCALES(sc, 0, 1)
       /\ LookedUp(sc, SCALE) = COLOR_SCALES(sc, 1, 1)
       /\ Len(colorLUTCache[sc]) = 256 * 3
  /\ RenderOk =>
       \A f \in 0..(ret.numFrames - 1), b \in 0..(ret.numBins - 1) :
         LET t == image.intensity[f * ret.numBins + b + 1]
             p == ((ret.numBins - 1 - b) * ret.numFrames + f) * 4
         IN /\ t = 0 => PixelRGB(p) = COLOR_SCALES(image.colorScale, 0, 1)
            /\ t = SCALE => PixelRGB(p) = COLOR_SCALES(image.colorScale, 1, 1)

C11_Witness ==
  /\ RenderOk
  /\ image.colorScale = "viridis"
  /\ "hot" \in DOMAIN colorLUTCache
  /\ \E i, j \in 1..Len(image.intensity) :
       image.intensity[i] = 0 /\ image.intensity[j] = SCALE

\* C12: in the image of a render, the pixel of frame f and display bin b is at
\* byte ((displayBins - 1 - b) * width + f) * 4 and holds the lookup-table
\* colour of the bin's clamped intensity and alpha 255; every pixel of the
\* image is written exactly once.
C12_PixelLayout ==
  RenderOk =>
    /\ \A f \in 0..(ret.numFrames - 1), b \in 0..(ret.numBins - 1) :
         LET t == image.intensity[f * ret.numBins + b + 1]
             p == ((ret.numBins - 1 - b) * image.width + f) * 4
         IN /\ t >= 0 /\ t <= SCALE
            /\ PixelRGB(p) = LookedUp(image.colorScale, t)
            /\ image.data[p + 4] = 255
    /\ \A q \in 1..(image.width * image.height) :
         image.writes[q] = 1 /\ image.data[4 * q] = 255

C12_Witness ==
  /\ RenderOk
  /\ image.width >= 2
  /\ \E f \in 0..(ret.numFrames - 1) :
       /\ image.intensity[f * ret.numBins + ret.numBins] = SCALE
       /\ image.intensity[f * ret.numBins + 1] = 0
       /\ image.data[f * 4 + 1] > 0
  /\ \E i \in 1..Len(image.intensity) :
       image.intensity[i] > 0 /\ image.intensity[i] < SCALE

\* C13: the image is outputWidth wide and outputHeight high when these
\* options are given and numFrames wide and numBins high when they are
\* omitted, and its buffer has width * height * 4 bytes.
C13_OutputSize ==
  (image.op = "renderToImageData" /\ image.status = "ok") =>
    /\ image.width = (IF image.outputWidth = Undefined THEN ret.numFrames
                      ELSE image.outputWidth)
    /\ image.height = (IF image.outputHeight = Undefined THEN ret.numBins
                       ELSE image.outputHeight)
    /\ Len(image.data) = image.width * image.height * 4

\* C15: render calls leave the spectrogram as generation returned it: after
\* any number of renders the matrix and the metadata are those of the end of
\* the generation.
C15_RenderLeavesMatrix ==
  (pc = "idle" /\ ret.op = "generateSpectrogram" /\ ret.status = "ok") =>
    /\ ret.data = call.spectrogram
    /\ ret.numFrames = call.numFrames
    /\ ret.numBins = call.numBins
    /\ ret.fftSize = call.fftSize
    /\ ret.windowSize = call.windowSize
    /\ ret.hopSize = call.hopSize
    /\ ret.sampleRate = call.sampleRate

C15_Witness ==
  /\ RenderOk
  /\ nOps >= 3
  /\ image.op = "renderSpectrogram"
  /\ \E i \in 1..Len(ret.data) : ret.data[i] > 0
  /\ \E i \in 1..Len(image.intensity) : image.intensity[i] > 0


----------------------------------------------------------------------------
(* Properties of remapSpectrumWithDownsample (checked under SpecRemap) *)

\* the bin Math.round(pos) clamped to the spectrum, as nearest-sampling picks
NearestBin(pos, specLen) ==
  ClampIndex((pos + SCALE \div 2) \div SCALE, specLen)

\* display bin i of the last remap covers, between srcBinStart and srcBinEnd,
\* the bin nearest-sampling picks for it
CoversNearest(i) ==
  LET specLen == Len(remapped.spectrum)
      r == CoveredRange(remapped.freqMapping, i, remapped.displayBins, specLen)
      n == NearestBin(remapped.freqMapping[i + 1], specLen) * SCALE
  IN r.srcBinStart <= n /\ n <= r.srcBinEnd

\* C14: in downsample mode "max", at every display bin whose covered source
\* range contains the bin nearest-sampling picks, the remapped value is at
\* least the value of that bin, for every interpolation mode and spectrum.
C14_MaxNotBelowNearest ==
  (remapped.op = "remapSpectrumWithDownsample" /\ remapped.downsampleMode = "max")
    => \A i \in 0..(remapped.displayBins - 1) :
         CoversNearest(i)
           => remapped.out[i + 1]
                >= remapped.spectrum[NearestBin(remapped.freqMapping[i + 1],
                                                Len(remapped.spectrum)) + 1]

\* a "max" remap with linear interpolation of a bin halfway between a silent
\* and a full-scale bin: the interpolated sample is half scale, the remapped
\* value is the full-scale bin nearest-sampling picks
C14_Witness ==
  /\ remapped.op = "remapSpectrumWithDownsample"
  /\ remapped.downsampleMode = "max"
  /\ remapped.interpolation = "linear"
  /\ \E i \in 0..(remapped.displayBins - 1) :
       /\ CoversNearest(i)
       /\ sampleSpectrum(remapped.spectrum, remapped.freqMapping[i + 1], "linear")
            < remapped.out[i + 1]
       /\ remapped.out[i + 1] = SCALE

\* the source range display bin i of the last remap covers, from the midpoint
\* to the previous mapped position to the midpoint to the next, lies inside
\* one source bin
InsideOneBin(i) ==
  LET r == CoveredRange(remapped.freqMapping, i, remapped.displayBins,
                        Len(remapped.spectrum))
  IN /\ r.srcBinStart <= r.srcBinEnd
     /\ r.srcBinStart \div SCALE = r.srcBinEnd \div SCALE

\* C22: in the modes "max" and "average" a display bin whose covered source
\* range lies inside a single source bin gets the spectrum sampled at its
\* fractional position with the selected interpolation, as mode "nearest"
\* gives, with no whole source bin combined into it.
C22_SingleBinIsSampled ==
  (remapped.op = "remapSpectrumWithDownsample"
     /\ remapped.downsampleMode \in {"max", "average"})
    => \A i \in 0..(remapped.displayBins - 1) :
         InsideOneBin(i)
           => remapped.out[i + 1] =
                sampleSpectrum(remapped.spectrum, remapped.freqMapping[i + 1],
                               remapped.interpolation)

----------------------------------------------------------------------------
(* Properties of the transform input (checked under Spec) *)

\* the window variants whose transforms a frame runs, in order
VariantsRun ==
  IF call.algorithm = "reassignment"
  THEN <<"standard", "derivative", "timeRamped">> ELSE <<"standard">>

\* element n (0-based) of the real input the transform read from buffer inp
RealInput(inp, n) == IF ctx.isReal THEN inp[n + 1] ELSE inp[2 * n + 1]

\* C16: with zeroPadding > 1, every transform of a frame reads that frame's
\* samples times the coefficients of its window variant in [0, windowSize),
\* exactly 0 in [windowSize, fftSize), and in complex mode 0 in every
\* imaginary input: nothing left from an earlier frame, variant or owner of
\* the context.
C16_FreshTransformInput ==
  ((pc = "frames" \/ GenOk) /\ call.frame > 0 /\ call.zeroPadding > 1)
    => /\ Len(call.fftInputs) = Len(VariantsRun)
       /\ \A k \in 1..Len(call.fftInputs) :
            LET inp == call.fftInputs[k]
                offset == (call.frame - 1) * call.hopSize
            IN /\ \A n \in 0..(call.windowSize - 1) :
                    RealInput(inp, n) =
                      FxMul(call.samples[offset + n + 1],
                            WindowFn(call.windowType, VariantsRun[k], n,
                                     call.windowSize))
               /\ \A n \in call.windowSize..(call.fftSize - 1) :
                    RealInput(inp, n) = 0
               /\ ~ctx.isReal =>
                    /\ Len(inp) = 2 * call.fftSize
                    /\ \A n \in 0..(call.fftSize - 1) : inp[2 * n + 2] = 0
               /\ ctx.isReal => Len(inp) = call.fftSize

\* the second frame of a zero-padded reassignment on a complex context whose
\* buffers held other values: the three transforms read different inputs, and
\* the third a sample that is not 0
C16_Witness ==
  /\ pc = "frames"
  /\ call.frame >= 2
  /\ call.zeroPadding = 2
  /\ call.algorithm = "reassignment"
  /\ ~ctx.isReal
  /\ call.fftInputs[1] # call.fftInputs[2]
  /\ call.fftInputs[2] # call.fftInputs[3]
  /\ \E n \in 0..(call.windowSize - 1) : call.fftInputs[3][2 * n + 1] # 0

\* C24: a reassignment frame runs exactly three transforms on the shared
\* context, in the order standard, derivative, time-ramped; each result is the
\* transform of that frame's samples under its own window variant, copied out
\* before the next execute overwrote the shared output buffer, which ends
\* holding the third.
C24_ThreeTransformsPerFrame ==
  ((pc = "frames" \/ GenOk) /\ call.algorithm = "reassignment" /\ call.frame > 0)
    => /\ Len(call.fftInputs) = 3
       /\ Len(call.fftResults) = 3
       /\ \A k \in 1..3 :
            LET inp == call.fftInputs[k]
                offset == (call.frame - 1) * call.hopSize
            IN /\ \A n \in 0..(call.windowSize - 1) :
                    RealInput(inp, n) =
                      FxMul(call.samples[offset + n + 1],
                            WindowFn(call.windowType, VariantsRun[k], n,
                                     call.windowSize))
               /\ call.fftResults[k] = FFTRun(inp, ctx.isReal, call.fftSize)
       /\ \A j \in 1..(2 * call.numBins) : ctx.output[j] = call.fftResults[3][j]

\* a later reassignment frame whose three transforms differ from each other,
\* with a bin whose energy was reassigned
C24_Witness ==
  /\ pc = "frames"
  /\ call.algorithm = "reassignment"
  /\ call.frame >= 2
  /\ call.fftResults[1] # call.fftResults[2]
  /\ call.fftResults[2] # call.fftResults[3]
  /\ call.fftResults[1] # call.fftResults[3]
  /\ \E m \in call.made : ~m.skip

\* the windowed buffer `windowed` holds the frame at `offset` times the
\* coefficients of `variant` in every one of its windowSize elements
WindowedIs(windowed, offset, variant) ==
  /\ Len(windowed) = call.windowSize
  /\ \A n \in 0..(call.windowSize - 1) :
       windowed[n + 1] =
         FxMul(call.samples[offset + n + 1],
               WindowFn(call.windowType, variant, n, call.windowSize))

\* C27: in every generation that goes through, also after targetWidth raised
\* the hop, frame f reads exactly the windowSize samples of
\* [f * hopSize, f * hopSize + windowSize), all inside the sample array, and
\* each frame overwrites the whole windowed buffer.
C27_FramesInsideSamples ==
  (pc = "frames" \/ GenOk)
    => /\ \A f \in 0..(call.numFrames - 1) :
            /\ f * call.hopSize >= 0
            /\ f * call.hopSize + call.windowSize <= Len(call.samples)
       /\ call.frame > 0 =>
            LET offset == (call.frame - 1) * call.hopSize
            IN /\ call.frameRead = <<offset, call.windowSize>>
               /\ WindowedIs(call.windowedH, offset, "standard")
               /\ call.algorithm = "reassignment" =>
                    /\ WindowedIs(call.windowedDh, offset, "derivative")
                    /\ WindowedIs(call.windowedTh, offset, "timeRamped")

\* a generation whose hop targetWidth raised, at its last frame, which does
\* not start at 0 and whose windowed buffer differs from a silent one
C27_Witness ==
  /\ GenOk
  /\ TargetGiven
  /\ call.hopSize > RequestedHopSize(call.optHopSize, call.fftSize)
  /\ call.numFrames >= 2
  /\ call.frameRead = <<(call.numFrames - 1) * call.hopSize, call.windowSize>>
  /\ \E n \in 1..call.windowSize : call.windowedH[n] # 0

----------------------------------------------------------------------------
(* Properties of repeated generations (checked under SpecRepeat) *)

\* C17: a generateSpectrogram call returns the matrix and the metadata the
\* first call with the same samples, options and transform returned, whatever
\* ran in between and whatever the cache and the context buffers held.
C17_Deterministic ==
  GenOk => /\ GenerationKey(call, ctx) \in DOMAIN firstResult
           /\ ret = firstResult[GenerationKey(call, ctx)]

----------------------------------------------------------------------------
(* Properties of analyzeFrequencyRange (checked under SpecAnalyze) *)

Analyzed == analysis.op = "analyzeFrequencyRange"

\* every cell of the analyzed matrix is 0
SilentMatrix ==
  \A i \in 1..Len(analysis.spectrogram.data) : analysis.spectrogram.data[i] = 0

\* C18: for a silent matrix analyzeFrequencyRange returns exactly minFreq 20
\* and maxFreq nyquist = sampleRate / 2, for any sample rate and matrix size.
C18_SilentDefaultRange ==
  (Analyzed /\ SilentMatrix)
    => /\ analysis.range.minFreq = 20 * SCALE
       /\ 2 * analysis.range.maxFreq = analysis.spectrogram.sampleRate * SCALE

\* a silent matrix of two frames at 11025 Hz, whose nyquist is 5512.5 Hz
C18_Witness ==
  /\ Analyzed
  /\ SilentMatrix
  /\ analysis.spectrogram.numFrames = 2
  /\ analysis.range.silent
  /\ analysis.spectrogram.sampleRate = 11025
  /\ analysis.range.maxFreq = 551250

\* C19: for every matrix the returned range has 20 <= minFreq,
\* maxFreq <= nyquist and maxFreq >= minFreq + 500.
C19_RangeWithinBounds ==
  Analyzed
    => /\ 20 * SCALE <= analysis.range.minFreq
       /\ 2 * analysis.range.maxFreq <= analysis.spectrogram.sampleRate * SCALE
       /\ analysis.range.maxFreq >= analysis.range.minFreq + 500 * SCALE

\* the bins of the analyzed matrix, on one side of the peak, whose average
\* energy is not above the threshold
QuietBins(bins) ==
  LET sp == analysis.spectrogram
      sums == EnergySums(sp.data, sp.numFrames, sp.numBins)
  IN {b \in bins : ~AboveThreshold(sums, b, NoiseFloor(sums), MaxEnergy(sums))}

\* C23: the bounds come from scanning outward from the peak bin: the bin
\* behind minFreq is the first bin going downward from the peak whose average
\* energy is below the threshold, the bin behind maxFreq the first such bin
\* going upward, so energy beyond a sub-threshold gap does not widen the range:
\* neither bound lies beyond the first sub-threshold bin on its side.
C23_ScanOutwardFromPeak ==
  (Analyzed /\ ~analysis.range.silent)
    => LET peak == analysis.range.peakBin
           down == QuietBins(0..(peak - 1))
           up == QuietBins((peak + 1)..(analysis.spectrogram.numBins - 1))
       IN /\ down # {} => analysis.range.minBin >= MaxOf(down)
          /\ up # {} => \A b \in up : analysis.range.maxBin <= b

----------------------------------------------------------------------------
(* The hop size under targetWidth (checked under Spec) *)

\* Math.floor((samples.length - windowSize) / h) + 1 for the last call
FramesAtHop(h) == (Len(call.samples) - call.windowSize) \div h + 1

\* C20: when the hop size used is larger than the requested one because of
\* targetWidth, it is the smallest hop size not below the requested one that
\* gives at most targetWidth frames.
C20_SmallestCappingHop ==
  (GenOk /\ TargetGiven /\ ret.hopSize > call.requestedHop)
    => /\ FramesAtHop(ret.hopSize) <= call.targetWidth
       /\ \A h \in call.requestedHop..(ret.hopSize - 1) :
            FramesAtHop(h) > call.targetWidth

----------------------------------------------------------------------------
(* Rounding of the reassigned coordinates (checked under Spec) *)

\* round-half-up of whole + frac / SCALE: Math.floor(x + 0.5), for negative
\* x as well
RoundHalfUp(whole, frac) == (whole * SCALE + frac + SCALE \div 2) \div SCALE

\* C21: every bin the last frame of a reassignment processed went to the
\* cell (round(frame + timeCorrection), round(bin + freqCorrection)), round
\* being round-half-up, if that frame is in [0, numFrames) and that bin in
\* [3, numBins), and to no cell otherwise.
C21_ReassignedCell ==
  ((pc = "frames" \/ GenOk) /\ call.algorithm = "reassignment")
    => \A m \in call.made :
         (~m.skip /\ m.timeCorrection # NaN)
           => LET rb == RoundHalfUp(m.fromBin, m.freqCorrection)
                  rf == RoundHalfUp(m.fromFrame, m.timeCorrection)
                  valid == /\ rf >= 0 /\ rf < call.numFrames
                           /\ rb >= 3 /\ rb < call.numBins
              IN /\ m.inRange <=> valid
                 /\ m.inRange => m.idx = rf * call.numBins + rb

----------------------------------------------------------------------------
(* Properties of the colour lookup tables (checked under SpecColor) *)

\* the table a key stands for: 256 samples of its colour function at i / 255,
\* and of magma for a key that names no supported scale
TableOf(colorScale) ==
  [j \in 1..(256 * 3) |->
     COLOR_SCALES(IF colorScale \in ColorScales THEN colorScale ELSE "magma",
                  (j - 1) \div 3, 255)[((j - 1) % 3) + 1]]

TableOfKey == [colorScale \in ColorScaleKeys |-> TableOf(colorScale)]

\* every cached table is the table of its key, and every pixel of a render
\* is entry round(t * 255), within 0..255, of the table of the render's key
TablesAsSpecified ==
  /\ \A key \in DOMAIN colorLUTCache : colorLUTCache[key] = TableOfKey[key]
  /\ RenderOk =>
       \A f \in 0..(ret.numFrames - 1), b \in 0..(ret.numBins - 1) :
         LET t == image.intensity[f * ret.numBins + b + 1]
             p == ((ret.numBins - 1 - b) * image.width + f) * 4
             k == (t * 255 * 2 + SCALE) \div (2 * SCALE)
         IN /\ k >= 0 /\ k <= 255
            /\ PixelRGB(p) = <<TableOfKey[image.colorScale][3 * k + 1],
                               TableOfKey[image.colorScale][3 * k + 2],
                               TableOfKey[image.colorScale][3 * k + 3]>>

\* a step keeps every cached table as it is, and computes a table only for a
\* key that has none
TablesComputedOnce ==
  /\ \A key \in DOMAIN colorLUTCache :
       key \in DOMAIN colorLUTCache' /\ colorLUTCache'[key] = colorLUTCache[key]
  /\ \A key \in DOMAIN colorLUTCache' \ DOMAIN colorLUTCache :
       image'.lutComputed /\ image'.colorScale = key
  /\ (image' # image /\ image'.status = "ok" /\ image'.lutComputed)
       => image'.colorScale \notin DOMAIN colorLUTCache

\* C25: across any sequence of render calls the 256-entry table of a key is
\* computed at most once and reused unchanged by later renders, the entry used
\* for an intensity t in [0, 1] is round(t * 255) in 0..255, and a key that
\* names no supported scale gets the magma table.
C25_LutOncePerKey == [](TablesAsSpecified) /\ [][TablesComputedOnce]_vars

----------------------------------------------------------------------------
(* Properties of createFrequencyMapping (checked under SpecMapping) *)

\* C26: for every frequency scale and every minFreq and maxFreq a render call
\* passes after clamping minFreq to at least 1 and maxFreq to at most nyquist,
\* the mapping has exactly displayBins entries, is nondecreasing, and every
\* entry lies in [0, numBins - 1].
C26_MappingMonotoneInRange ==
  mapping.op = "createFrequencyMapping"
    => /\ Len(mapping.out) = mapping.displayBins
       /\ \A i \in 1..mapping.displayBins :
            mapping.out[i] >= 0 /\ mapping.out[i] <= (mapping.numBins - 1) * SCALE
       /\ \A i \in 1..(mapping.displayBins - 1) :
            mapping.out[i] <= mapping.out[i + 1]


----------------------------------------------------------------------------
(* Properties of the demo's undo stack (checked under SpecUndo) *)

\* what a step may do to the undo stack: an undo that takes effect had at
\* least 2 states, removes exactly the newest, leaves the stack non-empty
\* and the page as the state now on top says; any other step leaves the
\* stack, pushes the page's state (dropping the oldest state past 10) or, on
\* an audio load, replaces the stack by the page's state
UndoStackStep ==
  LET before == demo.undoStack
      after == demo'.undoStack
      appended == Append(before, captureState(demo'))
      top == after[Len(after)]
  IN /\ Len(before) < 2 => ~demo'.undone
     /\ demo'.undone =>
          /\ after = SubSeq(before, 1, Len(before) - 1)
          /\ Len(after) >= 1
          /\ demo'.controlValues = top.controlValues
          /\ demo'.zoomStack = top.zoomStack
          /\ demo'.isCustomSize = top.isCustomSize
     /\ ~demo'.undone =>
          \/ after = before
          \/ after = IF Len(appended) > MAX_UNDO_STATES THEN SubSeq(appended, 2, MAX_UNDO_STATES + 1)
                     ELSE appended
          \/ after = <<captureState(demo')>>
     /\ after = <<>> => before = <<>>

\* C29: after any sequence of control changes, zooms, zoom resets, resizes,
\* audio loads and undos the undo stack never holds more than 10 states, the
\* oldest being dropped first; an undo with fewer than 2 states changes
\* nothing; an undo removes exactly one state and never leaves the stack
\* empty; restoring a state pushes no new undo state.
C29_UndoStack ==
  /\ [](Len(demo.undoStack) <= MAX_UNDO_STATES /\ ~demo.isRestoringState)
  /\ [][UndoStackStep]_vars

\* an undo of a full stack whose first state had been dropped: the oldest
\* state left is a zoomed one, and a load leaves an unzoomed one first
C29_Witness ==
  /\ demo.undone
  /\ Len(demo.undoStack) = MAX_UNDO_STATES - 1
  /\ demo.undoStack[1].zoomStack # <<>>

----------------------------------------------------------------------------
(* Properties of overlapping processAndRender calls (checked under SpecDemo) *)

\* C30: once every processAndRender call has completed, the current
\* spectrogram and the canvas are those of the controls and the samples of
\* the call started last, whatever order the awaited context creations
\* resolved in.
C30_LastCallWins ==
  (demo.pending = <<>> /\ demo.lastStarted # NoSpectrogram)
    => /\ demo.currentSpectrogram = demo.lastStarted
       /\ demo.canvas.algorithm = demo.lastStarted.algorithm
       /\ demo.canvas.samples = demo.lastStarted.samples
====
